---- MODULE Spec2Model ----
(***************************************************************************)
(* Model of the orchestration core of the LLM interaction manager:         *)
(*   api/lims_interface.py        module-level API and its singleton       *)
(*   core/interaction_manager.py  InteractionManager                       *)
(*   core/conversation.py         Conversation                             *)
(*   utils/settings_handler.py    SettingsHandler and config.json          *)
(* The three handlers (language model, record store, vector store) are     *)
(* external collaborators: their replies and failures are choices of the   *)
(* environment, their is_connected() answers are the state `connected`.    *)
(***************************************************************************)
EXTENDS Integers, Sequences, FiniteSets, TLC

\* ------------------------------------------------------------------ bounds
MaxTurns == 1          \* Spec: send_prompt calls that reach the append, per run
MaxMetaTurns == 2      \* SpecMeta: send_prompt calls that reach the append, per run
MaxConvs == 1          \* Spec, SpecMeta: conversations created per run
MaxHist == 11          \* SpecRag: longest history the conversation already has
MaxRagTurns == 1       \* SpecRag: send_prompt calls that reach the append, per run
MaxStarts == 2         \* SpecConv: conversations created per run
MaxConvTurns == 2      \* SpecConv: send_prompt calls that reach the append, per run
MaxOpsHist == 2        \* SpecOps: longest history the conversation already has
MaxSaves == 3          \* SpecStore: save_record and save_vector calls per run

\* ------------------------------------------------------- program constants
HistWindow == 10       \* conversation_history[-10:]
TopK == 10             \* nearest_search(prompt, 10, ...)
EmbeddingsTable == "lims_embeddings"
UnsetPrompt == "-1"    \* Settings.default_system_prompt default

Roles == {"llm", "persistent", "vector"}
RAGMode == {"NONE", "PERSISTENT", "VOLATILE", "DYNAMIC"}

\* ---------------------------------------------------- python dict helpers
\* A dict is a function; d1.update(d2) / {**d1, **d2}: the right side wins.
EmptyDict == [k \in {} |-> ""]
DictUpdate(d1, d2) == [k \in DOMAIN d1 \cup DOMAIN d2 |-> IF k \in DOMAIN d2 THEN d2[k] ELSE d1[k]]
DictDel(d, key) == [k \in DOMAIN d \ {key} |-> d[k]]
DictGet(d, key, default) == IF key \in DOMAIN d THEN d[key] ELSE default

\* RAG payloads: Settings types them Union[Dict[str, str], List[str]]; a
\* payload is tagged with its python type, a dict keeps its insertion order.
DictPayload(ks, vs) == [kind |-> "dict", keys |-> ks, vals |-> vs]
ListPayload(vs) == [kind |-> "list", keys |-> <<>>, vals |-> vs]
ScalarPayload(v) == [kind |-> "other", keys |-> <<>>, vals |-> <<v>>]
EmptyPayload == DictPayload(<<>>, <<>>)
Payloads == {EmptyPayload, DictPayload(<<"doc1">>, <<"text1">>), ListPayload(<<"p", "q">>), ScalarPayload("x")}

\* python truthiness of a payload (`not self.settings.on_the_fly_data`)
Truthy(data) == Len(data.vals) > 0

\* faulty variant of normalize_rag_data: a value that is neither a mapping nor
\* a list is kept as a one-entry list
NormalizeKeepsOther(data) == data.vals

normalize_rag_data(data) ==
    IF data.kind = "dict" THEN data.vals
    ELSE IF data.kind = "list" THEN data.vals
    ELSE <<>>

\* ------------------------------------------------------------ environment
Prompts == {"Hello", "Query"}
SystemPrompts == {UnsetPrompt, "Be brief"}
\* replies of LLMHandlerBase.send_prompt: a dict, normally with "response";
\* the huggingface handler adds "prompt", any handler may add more fields
PlainReply == [response |-> "Mock Response"]
ExtraReply == [response |-> "Hi", prompt |-> "wrapped", message_id |-> "msg_x"]
BadReply == [text |-> "no response key"]
LLMReplies == {PlainReply, ExtraReply, BadReply}
\* the collaborator call that raises during one operation, if any; a call on
\* a handler that is not connected raises in any case
Faults == {"none", "nearest_search", "get_info", "llm", "save_record", "save_vector"}
SaveFaults == {"none", "save_record", "save_vector"}
\* what the reviewer types at input("Comment: "); "EOF" stands for EOFError
CommentInputs == {" ok ", "EOF"}
strip(s) == IF s = " ok " THEN "ok" ELSE s
\* results of VectorDataHandlerBase.nearest_search
SearchHits == {<<>>, <<"PROMPT: a RESPONSE: b">>}
\* arguments of add_metadata / remove_metadata / change_comment
MetaData == {[comment |-> "meta"]}
MetaKeys == {"topic", "comment", "prompt", "response"}
MetaIds == {"None", "msg_1"}
\* the same for SpecOps, whose turns are "old_1", "old_2", ...
OpsData == {[comment |-> "meta", id |-> "x"]}
OpsKeys == {"topic", "comment", "response", "prompt", "content", "data", "id"}
OpsIds == {"None", "old_1", "old_2"}
Comments == {"ok"}
\* the mapping a caller hands to connect
ConnectData == {[host |-> "localhost", port |-> "5432", user |-> "lims"]}
ConvMetaArgs == {EmptyDict, [topic |-> "test"]}

MsgId(n) == "msg_" \o ToString(n)
ConvId(n) == "conv_" \o ToString(n)
CreatedAt(n) == "t" \o ToString(n)

VARIABLES
    im,            \* "None" | "direct" | "api": no InteractionManager, one built by the caller, the module singleton
    connected,     \* role -> is_connected() of the handler bound to that role
    settings,      \* InteractionManager.settings
    config,        \* config.json: <<>> no file, <<d>> the file with sections d
    handles,       \* role -> the handler bound to it: its name and which instance it is (0: none)
    db,            \* the databases behind the two data handlers, row by row (SpecStore)
    conversation,  \* InteractionManager.conversation: <<>> is None, <<c>> the Conversation
    next_conv,     \* conversations created so far (uuid4 never repeats)
    next_msg,      \* message ids generated so far
    record_store,  \* message_id -> last message written by a successful save_record
    vector_store,  \* id carried by the data -> last data written by a successful save_vector, and the turn it was written for
    pc,            \* "idle" | "await_comment": send_prompt blocked in input()
    pending,       \* the suspended send_prompt: its prompt and the reply of the model
    result,        \* outcome of the last call: op, via, status, source of the error, value
    calls,         \* what the last call did to its collaborators (see NoCalls)
    sent           \* history variable: the Conversation.send_prompt calls of the current conversation that reached the append

vars == <<im, connected, settings, config, handles, db, conversation, next_conv, next_msg, record_store, vector_store,
          pc, pending, result, calls, sent>>

\* dataclass defaults of Settings (the fields the orchestration reads)
DefaultSettings ==
    [ handlers |-> EmptyDict,
      default_handlers |-> EmptyDict,
      use_rag_data |-> "NONE",
      on_the_fly_data |-> EmptyPayload,
      default_rag_data |-> EmptyPayload,
      default_system_prompt |-> UnsetPrompt,
      wait_for_manual_data |-> FALSE,
      send_conversation_history |-> FALSE ]

\* ------------------------------------------- SettingsHandler / config.json
\* the file's content as _read_json gives it to write_setting,
\* set_connection and initialize_settings_object: {} when there is no file
ReadJson(cfg) == IF cfg = <<>> THEN EmptyDict ELSE cfg[1]

\* all_settings.get(section, {})
Section(data, section) == DictGet(data, section, EmptyDict)

\* faulty variant of WriteSetting: the section is replaced by value
WriteSettingReplacingSection(cfg, section, value) ==
    <<DictUpdate(ReadJson(cfg), section :> value)>>

\* SettingsHandler.write_setting(section, value): the section is merged with
\* value and the file is written, created if missing
WriteSetting(cfg, section, value) ==
    <<DictUpdate(ReadJson(cfg), section :> DictUpdate(Section(ReadJson(cfg), section), value))>>

\* SettingsHandler.set_connection(handler_name, config)
SetConnection(cfg, handler_name, info) ==
    LET handlers_block == Section(ReadJson(cfg), "handlers")
        existing_config == DictGet(handlers_block, handler_name, EmptyDict)
    IN  WriteSetting(cfg, "handlers", DictUpdate(handlers_block, handler_name :> DictUpdate(existing_config, info)))

\* SettingsHandler.initialize_settings_object: the Settings built from the
\* file, a missing general key gets its placeholder or dataclass default
InitializeSettingsObject(cfg) ==
    LET data == ReadJson(cfg)
        general_block == Section(data, "general")
    IN  [ handlers |-> Section(data, "handlers"),
          default_handlers |-> Section(data, "default_handlers"),
          use_rag_data |-> DictGet(general_block, "use_rag_data", DefaultSettings.use_rag_data),
          on_the_fly_data |-> DictGet(general_block, "on_the_fly_data", DefaultSettings.on_the_fly_data),
          default_rag_data |-> DictGet(general_block, "default_rag_data", DefaultSettings.default_rag_data),
          default_system_prompt |-> DictGet(general_block, "default_system_prompt", DefaultSettings.default_system_prompt),
          wait_for_manual_data |-> DictGet(general_block, "wait_for_manual_data", DefaultSettings.wait_for_manual_data),
          send_conversation_history |-> DictGet(general_block, "send_conversation_history",
                                                DefaultSettings.send_conversation_history) ]

\* get_name() and get_info() of the handler the caller binds to a role
HandlerName(role) ==
    CASE role = "llm" -> "langchain"
      [] role = "persistent" -> "mongodb"
      [] role = "vector" -> "chromadb"
HandlerInfo(role) ==
    CASE role = "llm" -> [api_key |-> "key"]
      [] role = "persistent" -> [host |-> "localhost", port |-> "27017"]
      [] role = "vector" -> [host |-> "localhost", port |-> "8000"]

\* the databases before any direct call of a data handler: record: what the
\* persistent handler stores, vector: table -> what the vector handler stores,
\* uuids: how many uuid4 values the handlers have drawn, saves: how many
\* save calls were made
NoDb == [record |-> EmptyDict, vector |-> EmptyDict, uuids |-> 0, saves |-> 0]

\* no InteractionManager, no handler
NoHandles == [r \in Roles |-> [name |-> "", inst |-> 0]]

\* the three handler objects the caller builds and hands to the constructor
DirectHandles ==
    [r \in Roles |-> [name |-> HandlerName(r),
                      inst |-> CASE r = "llm" -> 1 [] r = "persistent" -> 2 [] r = "vector" -> 3]]

\* faulty variant of SameInstance: a handler object serves one role only
OwnRoleOnly(h, role) == {role}

\* the roles served by the handler object bound to role
SameInstance(h, role) == {r \in Roles : h[r].inst = h[role].inst}

\* a config.json written by an earlier run in which the three handlers were
\* handed over connected and each general setting was written once with its
\* default value
InstalledConfig ==
    <<[ general |-> [ default_rag_data |-> DefaultSettings.default_rag_data,
                      default_system_prompt |-> DefaultSettings.default_system_prompt,
                      wait_for_manual_data |-> DefaultSettings.wait_for_manual_data,
                      send_conversation_history |-> DefaultSettings.send_conversation_history ],
        handlers |-> [name \in {HandlerName(r) : r \in Roles} |->
                       HandlerInfo(CHOOSE r \in Roles : HandlerName(r) = name)],
        default_handlers |-> [r \in Roles |-> HandlerName(r)] ]>>
InstalledSettings == InitializeSettingsObject(InstalledConfig)

\* the constructor's branch for a handler that was handed over: a connected
\* one is captured.  st is [settings, config, status] so far.
CaptureRole(st, role, conn) ==
    IF st.status # "ok" \/ ~conn[role] THEN st
    ELSE LET name == HandlerName(role)
             info == HandlerInfo(role)
             s1 == [st.settings EXCEPT !.default_handlers = DictUpdate(@, role :> name)]
             c1 == WriteSetting(st.config, "default_handlers", role :> name)
         IN  IF name \notin DOMAIN s1.handlers      \* self.settings.handlers[name]
             THEN [settings |-> s1, config |-> c1, status |-> "KeyError"]
             ELSE [settings |-> [s1 EXCEPT !.handlers = DictUpdate(@, name :> DictUpdate(@[name], info))],
                   config |-> SetConnection(c1, name, info),
                   status |-> "ok"]

\* the three branches in the constructor's order
CaptureAll(cfg, conn) ==
    CaptureRole(CaptureRole(CaptureRole(
        [settings |-> InitializeSettingsObject(cfg), config |-> cfg, status |-> "ok"],
        "llm", conn), "persistent", conn), "vector", conn)

NoPending == [via |-> "none", prompt |-> "", reply |-> EmptyDict]
\* arg: the prompt the caller passed; tr: the collaborator events in order;
\* search: the arguments and the result of nearest_search; llm: the arguments
\* of llm_handler.send_prompt; reply: what it returned; input: the line read
\* by input(); rec, vec: the save_record and save_vector calls; conn: the
\* arguments of the handlers' connect calls
NoCalls == [arg |-> <<>>, tr |-> <<>>, search |-> <<>>, llm |-> <<>>, reply |-> <<>>, input |-> <<>>,
            rec |-> <<>>, vec |-> <<>>, conn |-> <<>>]
NoResult == [op |-> "none", via |-> "none", status |-> "none", source |-> "none", value |-> EmptyDict]

Init ==
    /\ im = "None"
    /\ connected = [r \in Roles |-> FALSE]
    /\ handles = NoHandles
    /\ db = NoDb
    /\ settings = DefaultSettings
    /\ config = InstalledConfig
    /\ conversation = <<>>
    /\ next_conv = 0
    /\ next_msg = 0
    /\ record_store = EmptyDict
    /\ vector_store = EmptyDict
    /\ pc = "idle"
    /\ pending = NoPending
    /\ result = NoResult
    /\ calls = NoCalls
    /\ sent = <<>>

\* ------------------------------------------------ lims_interface / handles
\* faulty variant of CheckInitialized: the guard lets every call through
CheckInitializedAlways(m) == TRUE

\* _check_initialized: the module singleton is bound only by initialize()
CheckInitialized(m) == m = "api"

\* a call through the module API is refused before initialize(); a call made
\* directly on the InteractionManager needs the object to exist
ApiDenied(via) == via = "api" /\ ~CheckInitialized(im)
Callable(via) == via = "api" \/ im # "None"

\* what a call leaves behind for its caller and in the collaborators' logs
Report(op, via, status, source, value, cl) ==
    /\ result' = [op |-> op, via |-> via, status |-> status, source |-> source, value |-> value]
    /\ calls' = cl

NotInitialized(op, via) ==
    Report(op, via, "RuntimeError", "api", EmptyDict, NoCalls)

\* ------------------------------------------------------- InteractionManager
\* faulty variant of AllConnected: the vector handler is not asked
AllConnectedButVector(c) == c["llm"] /\ c["persistent"]

\* start_conversation's precondition over the three is_connected() probes
AllConnected(c) == c["llm"] /\ c["persistent"] /\ c["vector"]

ProbeTrace == <<"llm.is_connected", "persistent.is_connected", "vector.is_connected">>

\* faulty variant of NewConversation: the supplied metadata is dropped
NewConversationWithoutMetadata(n, conversation_metadata) ==
    [ conversation_id |-> ConvId(n),
      created_at |-> CreatedAt(n),
      conversation_metadata |-> EmptyDict,
      conversation_history |-> <<>> ]

\* Conversation.__init__
NewConversation(n, conversation_metadata) ==
    [ conversation_id |-> ConvId(n),
      created_at |-> CreatedAt(n),
      conversation_metadata |-> conversation_metadata,
      conversation_history |-> <<>> ]

\* ------------------------------------------- interaction_manager_factory
\* the value of LLMEnum.SETTINGS, PersistentEnum.SETTINGS, VectorEnum.SETTINGS
SettingsKey == "-1"

\* python's `sub in s` for two str
IsSubstring(sub, str) ==
    \E i \in 1..(Len(str) - Len(sub) + 1) : SubSeq(str, i, i + Len(sub) - 1) = sub

\* the handler key initialize() takes for one role.  With the SETTINGS
\* sentinel it reads default_handlers[role] through
\* SettingsHandler.read_setting (no file: FileNotFoundError) and wants a
\* mapping with a "value" entry; what the constructor's capture stored there
\* is the handler's name, a str, on which `"value" not in` is a substring
\* test and ["value"] a TypeError.
ResolveKey(cfg, role, key) ==
    IF key # SettingsKey THEN [status |-> "ok", key |-> key]
    ELSE IF cfg = <<>> THEN [status |-> "FileNotFoundError", key |-> ""]
    ELSE LET section_data == Section(ReadJson(cfg), "default_handlers")
         IN  IF role \notin DOMAIN section_data THEN [status |-> "ValueError", key |-> ""]
             ELSE IF section_data[role] = "" THEN [status |-> "ValueError", key |-> ""]
             ELSE IF ~IsSubstring("value", section_data[role]) THEN [status |-> "ValueError", key |-> ""]
             ELSE [status |-> "TypeError", key |-> ""]

\* interaction_manager_factory.initialize up to the constructor call: the
\* three keys in order, then the handlers; one object serves both data roles
\* when their keys are equal
ResolveAll(cfg, llm, persistent, vector) ==
    LET l == ResolveKey(cfg, "llm", llm)
        p == ResolveKey(cfg, "persistent", persistent)
        v == ResolveKey(cfg, "vector", vector)
    IN  IF l.status # "ok" THEN [status |-> l.status, source |-> "llm", handles |-> NoHandles]
        ELSE IF p.status # "ok" THEN [status |-> p.status, source |-> "persistent", handles |-> NoHandles]
        ELSE IF v.status # "ok" THEN [status |-> v.status, source |-> "vector", handles |-> NoHandles]
        ELSE [status |-> "ok", source |-> "none",
              handles |-> ("llm" :> [name |-> l.key, inst |-> 1])
                          @@ ("persistent" :> [name |-> p.key, inst |-> 2])
                          @@ ("vector" :> [name |-> v.key, inst |-> IF p.key = v.key THEN 2 ELSE 3])]

\* lims_interface.initialize -> interaction_manager_factory.initialize ->
\* InteractionManager(llm_handler, persistent_handler, vector_handler): the
\* handlers are built, none is connected, the settings are loaded afresh
Initialize(llm, persistent, vector) ==
    /\ pc = "idle"
    /\ im = "None"
    /\ LET o == ResolveAll(config, llm, persistent, vector)
           b == CaptureAll(config, [r \in Roles |-> FALSE])
       IN  IF o.status = "ok"
           THEN /\ im' = "api"
                /\ connected' = [r \in Roles |-> FALSE]
                /\ UNCHANGED db
                /\ handles' = o.handles
                /\ settings' = b.settings
                /\ config' = b.config
                /\ Report("initialize", "api", "ok", "none", EmptyDict, NoCalls)
           ELSE /\ Report("initialize", "api", o.status, o.source, EmptyDict, NoCalls)
                /\ UNCHANGED <<im, connected, handles, db, settings, config>>
    /\ conversation' = <<>>
    /\ sent' = <<>>
    /\ UNCHANGED <<next_conv, next_msg, record_store, vector_store, pc, pending>>

\* InteractionManager(llm_handler, persistent_handler, vector_handler) built
\* by the caller with handlers in any connection state
Construct(c) ==
    /\ pc = "idle"
    /\ im = "None"
    /\ LET o == CaptureAll(config, c)
       IN  /\ config' = o.config
           /\ IF o.status = "ok"
              THEN /\ im' = "direct"
                   /\ connected' = c
                   /\ UNCHANGED db
                   /\ handles' = DirectHandles
                   /\ settings' = o.settings
                   /\ Report("construct", "im", "ok", "none", EmptyDict, NoCalls)
              ELSE /\ Report("construct", "im", o.status, "settings", EmptyDict, NoCalls)
                   /\ UNCHANGED <<im, connected, handles, db, settings>>
    /\ conversation' = <<>>
    /\ sent' = <<>>
    /\ UNCHANGED <<next_conv, next_msg, record_store, vector_store, pc, pending>>

\* the constructor's branch for a handler that was not handed over: the
\* default name of the role, its stored configuration, a new handler object,
\* connect.  st is [settings, status, source, conn] so far; for the two data
\* roles host and port are popped from the stored configuration itself.  The
\* connect of role fail raises.
LoadRole(st, role, fail) ==
    IF st.status # "ok" THEN st
    ELSE LET name == DictGet(st.settings.default_handlers, role, "")
         IN  IF name = "" \/ name \notin DOMAIN st.settings.handlers
             THEN [st EXCEPT !.status = "ValueError", !.source = role]
             ELSE LET stored == st.settings.handlers[name]
                      rest == DictDel(DictDel(stored, "host"), "port")
                      s1 == IF role = "llm"
                            THEN [st EXCEPT !.conn = Append(@, [role |-> role, name |-> name, host |-> "",
                                                               port |-> "", auth |-> stored])]
                            ELSE [st EXCEPT !.settings.handlers[name] = rest,
                                            !.conn = Append(@, [role |-> role, name |-> name,
                                                               host |-> DictGet(stored, "host", "-1"),
                                                               port |-> DictGet(stored, "port", "-1"),
                                                               auth |-> rest])]
                  IN  IF fail = role THEN [s1 EXCEPT !.status = "HandlerError", !.source = role] ELSE s1

\* the three branches in the constructor's order
LoadAll(cfg, fail) ==
    LoadRole(LoadRole(LoadRole(
        [settings |-> InitializeSettingsObject(cfg), status |-> "ok", source |-> "none", conn |-> <<>>],
        "llm", fail), "persistent", fail), "vector", fail)

\* InteractionManager() without handlers: each role is bound through the
\* persisted defaults to a handler object of its own, which is connected
ConstructFromSettings(fail) ==
    /\ pc = "idle"
    /\ im = "None"
    /\ LET o == LoadAll(config, fail)
           cl == [NoCalls EXCEPT !.tr = [i \in 1..Len(o.conn) |-> o.conn[i].role \o ".connect"],
                                 !.conn = o.conn]
       IN  IF o.status = "ok"
           THEN /\ im' = "direct"
                /\ connected' = [r \in Roles |-> TRUE]
                /\ UNCHANGED db
                /\ handles' = [r \in Roles |-> [name |-> o.settings.default_handlers[r],
                                                inst |-> DirectHandles[r].inst]]
                /\ settings' = o.settings
                /\ Report("construct", "im", "ok", "none", EmptyDict, cl)
           ELSE /\ Report("construct", "im", o.status, o.source, EmptyDict, cl)
                /\ UNCHANGED <<im, connected, handles, db, settings>>
    /\ conversation' = <<>>
    /\ sent' = <<>>
    /\ UNCHANGED <<config, next_conv, next_msg, record_store, vector_store, pc, pending>>

\* the caller lets go of the InteractionManager (the run ends); config.json
\* and the stores stay
Release ==
    /\ pc = "idle"
    /\ im # "None"
    /\ im' = "None"
    /\ connected' = [r \in Roles |-> FALSE]
    /\ UNCHANGED db
    /\ handles' = NoHandles
    /\ settings' = DefaultSettings
    /\ conversation' = <<>>
    /\ sent' = <<>>
    /\ Report("release", "env", "ok", "none", EmptyDict, NoCalls)
    /\ UNCHANGED <<config, next_conv, next_msg, record_store, vector_store, pc, pending>>

\* faulty variant of ConnectArgs: host and port are popped from the caller's
\* mapping itself
ConnectArgsInPlace(target, data) ==
    IF target = "llm"
    THEN [caller |-> data, host |-> "", port |-> "", auth |-> data]
    ELSE [caller |-> DictDel(DictDel(data, "host"), "port"),
          host |-> DictGet(data, "host", "-1"), port |-> DictGet(data, "port", "-1"),
          auth |-> DictDel(DictDel(data, "host"), "port")]

\* InteractionManager.connect: d = data.copy(); for the two data roles host
\* and port are popped from d.  caller: the caller's mapping afterwards;
\* host, port, auth: what the handler's connect is given.
ConnectArgs(target, data) ==
    LET d == [k \in DOMAIN data |-> data[k]]
    IN  IF target = "llm"
        THEN [caller |-> data, host |-> "", port |-> "", auth |-> d]
        ELSE [caller |-> data,
              host |-> DictGet(d, "host", "-1"), port |-> DictGet(d, "port", "-1"),
              auth |-> DictDel(DictDel(d, "host"), "port")]

\* InteractionManager.connect(target, data): pass-through to the handler of
\* one role; an object bound to two roles is connected for both
Connect(target, data) ==
    /\ pc = "idle"
    /\ im # "None"
    /\ LET a == ConnectArgs(target, data)
           cl == [NoCalls EXCEPT !.tr = <<target \o ".connect">>,
                                 !.conn = <<[role |-> target, name |-> handles[target].name,
                                             host |-> a.host, port |-> a.port, auth |-> a.auth]>>]
       IN  \E ok \in BOOLEAN :
             IF ok
             THEN /\ connected' = [r \in Roles |-> IF r \in SameInstance(handles, target) THEN TRUE
                                                   ELSE connected[r]]
                  /\ Report("connect", "im", "ok", "none", a.caller, cl)
             ELSE /\ UNCHANGED connected
                  /\ Report("connect", "im", "HandlerError", target, a.caller, cl)
    /\ UNCHANGED <<im, settings, config, handles, db, conversation, next_conv, next_msg, record_store, vector_store, pc, pending, sent>>

\* the backend of a handler goes away (heartbeat fails, client dropped)
Disconnect(role) ==
    /\ im # "None"
    /\ connected[role]
    /\ connected' = [r \in Roles |-> IF r \in SameInstance(handles, role) THEN FALSE ELSE connected[r]]
    /\ result' = [op |-> "disconnect", via |-> "env", status |-> "ok", source |-> role, value |-> EmptyDict]
    /\ UNCHANGED <<im, settings, config, handles, db, conversation, next_conv, next_msg, record_store, vector_store,
                   pc, pending, calls, sent>>

\* a run creates at most max conversations: a start_conversation that would
\* succeed is left out once max are created
MayStart(max) == AllConnected(connected) => next_conv < max

\* start_conversation; the module API drops its conversation_metadata argument
StartConversation(via, conversation_metadata) ==
    /\ pc = "idle"
    /\ Callable(via)
    /\ IF ApiDenied(via)
       THEN NotInitialized("start_conversation", via) /\ UNCHANGED <<conversation, next_conv, sent>>
       ELSE IF ~AllConnected(connected)
       THEN /\ Report("start_conversation", via, "RuntimeError", "im", EmptyDict, [NoCalls EXCEPT !.tr = ProbeTrace])
            /\ UNCHANGED <<conversation, next_conv, sent>>
       ELSE /\ next_conv' = next_conv + 1
            /\ conversation' = <<NewConversation(next_conv + 1,
                                   IF via = "api" THEN EmptyDict ELSE conversation_metadata)>>
            /\ sent' = <<>>
            /\ Report("start_conversation", via, "ok", "none", EmptyDict, [NoCalls EXCEPT !.tr = ProbeTrace])
    /\ UNCHANGED <<im, connected, settings, config, handles, db, next_msg, record_store, vector_store, pc, pending>>

\* -------------------------------------------------------------- Conversation
\* python slice s[-n:]
LastN(s, n) == IF Len(s) <= n THEN s ELSE SubSeq(s, Len(s) - n + 1, Len(s))

\* the two context lines of one earlier turn
TurnContext(msg) == <<"PREVIOUS PROMPT: " \o msg["prompt"], "PREVIOUS RESPONSE: " \o msg["content"]>>

RECURSIVE TurnsContext(_)
TurnsContext(msgs) ==
    IF msgs = <<>> THEN <<>> ELSE TurnContext(Head(msgs)) \o TurnsContext(Tail(msgs))

\* faulty variant of HistoryContext: the oldest turns instead of the latest
OldestHistoryContext(history) ==
    TurnsContext(SubSeq(history, 1, IF Len(history) <= HistWindow THEN Len(history) ELSE HistWindow))

\* for msg in self.conversation_history[-10:]
HistoryContext(history) == TurnsContext(LastN(history, HistWindow))

\* the entries the RAG mode contributes; hits is the nearest_search result
ModeContext(s, hits) ==
    CASE s.use_rag_data = "VOLATILE" -> normalize_rag_data(s.on_the_fly_data)
      [] s.use_rag_data = "PERSISTENT" -> normalize_rag_data(s.default_rag_data)
      [] s.use_rag_data = "DYNAMIC" -> hits
      [] OTHER -> <<>>

BuildRagList(s, history, hits) ==
    (IF s.send_conversation_history THEN HistoryContext(history) ELSE <<>>) \o ModeContext(s, hits)

\* faulty variant of LLMArgs: the context is passed even when it is empty
LLMArgsAlwaysContext(prompt, rag_list) == [prompt |-> prompt, nargs |-> 2, rag |-> rag_list]

\* `if rag_list:` send_prompt(prompt, rag_list) else send_prompt(prompt)
LLMArgs(prompt, rag_list) ==
    IF rag_list # <<>>
    THEN [prompt |-> prompt, nargs |-> 2, rag |-> rag_list]
    ELSE [prompt |-> prompt, nargs |-> 1, rag |-> <<>>]

\* faulty variant of FullPrompt: the sentinel is treated as a prefix
FullPromptAlwaysPrefixed(s, prompt) == "SYSTEM PROMPT: " \o s.default_system_prompt \o " PROMPT: " \o prompt

\* InteractionManager.send_prompt: the text handed to the Conversation
FullPrompt(s, prompt) ==
    IF s.default_system_prompt # UnsetPrompt
    THEN "SYSTEM PROMPT: " \o s.default_system_prompt \o " PROMPT: " \o prompt
    ELSE prompt

\* response_obj
ResponseObj(message_id, prompt, reply, comment, s) ==
    LET base == ("message_id" :> message_id) @@ ("prompt" :> prompt) @@ ("content" :> reply["response"])
                @@ ("comment" :> comment) @@ ("metadata" :> DictDel(DictDel(reply, "content"), "prompt"))
    IN  CASE s.use_rag_data = "VOLATILE" -> base @@ ("RAG-Data" :> normalize_rag_data(s.on_the_fly_data))
          [] s.use_rag_data = "PERSISTENT" -> base @@ ("RAG-Data" :> normalize_rag_data(s.default_rag_data))
          [] OTHER -> base

\* faulty variant of AppendTurn: the new turn is put in front
PrependTurn(history, response_obj) == <<response_obj>> \o history

\* self.conversation_history.append(response_obj)
AppendTurn(history, response_obj) == Append(history, response_obj)

\* arguments of the two writes of _save_last_message_in_data
RecordConversationArg(c) ==
    DictUpdate(("conversation_id" :> c.conversation_id) @@ ("created_at" :> c.created_at),
               c.conversation_metadata)

RecordMessageArg(last_msg) ==
    [ message_id |-> last_msg["message_id"],
      user_prompt |-> last_msg["prompt"],
      llm_response |-> last_msg["content"],
      user_comment |-> DictGet(last_msg, "comment", ""),
      metadata |-> last_msg["metadata"] ]

VectorDataArg(last_msg) ==
    DictUpdate(("message_id" :> last_msg["message_id"]) @@ ("prompt" :> last_msg["prompt"])
                 @@ ("response" :> last_msg["content"]),
               last_msg["metadata"])

\* does the call `name` on the handler of `role` raise?
Raises(name, role, conn, fault) == fault = name \/ ~conn[role]

\* faulty variant of Commit: the vector store is written first
CommitVectorFirst(r, v, conn, fault) ==
    IF Raises("save_vector", "vector", conn, fault)
    THEN [status |-> "HandlerError", source |-> "vector", tr |-> <<"save_vector">>,
          rec |-> <<>>, vec |-> <<[v EXCEPT !.ok = FALSE]>>]
    ELSE IF Raises("save_record", "persistent", conn, fault)
    THEN [status |-> "HandlerError", source |-> "persistent", tr |-> <<"save_vector", "save_record">>,
          rec |-> <<[r EXCEPT !.ok = FALSE]>>, vec |-> <<v>>]
    ELSE [status |-> "ok", source |-> "none", tr |-> <<"save_vector", "save_record">>,
          rec |-> <<r>>, vec |-> <<v>>]

\* faulty variant of Commit: the error of the vector store is swallowed
CommitSwallowsVectorError(r, v, conn, fault) ==
    IF Raises("save_record", "persistent", conn, fault)
    THEN [status |-> "HandlerError", source |-> "persistent", tr |-> <<"save_record">>,
          rec |-> <<[r EXCEPT !.ok = FALSE]>>, vec |-> <<>>]
    ELSE [status |-> "ok", source |-> "none", tr |-> <<"save_record", "save_vector">>,
          rec |-> <<r>>,
          vec |-> <<[v EXCEPT !.ok = ~Raises("save_vector", "vector", conn, fault)]>>]

\* the two writes of _save_last_message_in_data, r then v: the calls made
\* (rec, vec: one entry per call, ok says whether the call returned) and how
\* the sequence ends; nothing is caught, retried or undone
Commit(r, v, conn, fault) ==
    IF Raises("save_record", "persistent", conn, fault)
    THEN [status |-> "HandlerError", source |-> "persistent", tr |-> <<"save_record">>,
          rec |-> <<[r EXCEPT !.ok = FALSE]>>, vec |-> <<>>]
    ELSE IF Raises("save_vector", "vector", conn, fault)
    THEN [status |-> "HandlerError", source |-> "vector", tr |-> <<"save_record", "save_vector">>,
          rec |-> <<r>>, vec |-> <<[v EXCEPT !.ok = FALSE]>>]
    ELSE [status |-> "ok", source |-> "none", tr |-> <<"save_record", "save_vector">>,
          rec |-> <<r>>, vec |-> <<v>>]

\* _save_last_message_in_data for conversation c (history not empty).  turn
\* is the message_id of the committed history entry.
Save(c, conn, fault) ==
    LET last_msg == c.conversation_history[Len(c.conversation_history)]
    IN  IF ~({"message_id", "prompt", "content", "metadata"} \subseteq DOMAIN last_msg)
        THEN [status |-> "KeyError", source |-> "conversation", tr |-> <<>>, rec |-> <<>>, vec |-> <<>>]
        ELSE Commit([conversation |-> RecordConversationArg(c), message |-> RecordMessageArg(last_msg),
                     turn |-> last_msg["message_id"], ok |-> TRUE],
                    [data |-> VectorDataArg(last_msg), table |-> EmbeddingsTable,
                     turn |-> last_msg["message_id"], ok |-> TRUE],
                    conn, fault)

\* the stores after the calls of one operation
RECURSIVE ApplyRecordCalls(_, _)
ApplyRecordCalls(store, cs) ==
    IF cs = <<>> THEN store
    ELSE ApplyRecordCalls(
           IF Head(cs).ok THEN DictUpdate(store, Head(cs).message.message_id :> Head(cs).message) ELSE store,
           Tail(cs))

RECURSIVE ApplyVectorCalls(_, _)
ApplyVectorCalls(store, cs) ==
    IF cs = <<>> THEN store
    ELSE ApplyVectorCalls(
           IF Head(cs).ok
           THEN DictUpdate(store, Head(cs).data["message_id"] :> [data |-> Head(cs).data, turn |-> Head(cs).turn])
           ELSE store,
           Tail(cs))

\* steps 5-7 of Conversation.send_prompt: new id, response_obj, append,
\* commit, return; cl is what the call has done so far
FinishSendPrompt(via, prompt, reply, comment, cl, fault) ==
    LET c == conversation[1]
        response_obj == ResponseObj(MsgId(next_msg + 1), prompt, reply, comment, settings)
        c2 == [c EXCEPT !.conversation_history = AppendTurn(c.conversation_history, response_obj)]
        o == Save(c2, connected, fault)
    IN  /\ next_msg' = next_msg + 1
        /\ conversation' = <<c2>>
        /\ sent' = Append(sent, [prompt |-> prompt, ok |-> o.status = "ok"])
        /\ record_store' = ApplyRecordCalls(record_store, o.rec)
        /\ vector_store' = ApplyVectorCalls(vector_store, o.vec)
        /\ Report("send_prompt", via, o.status, o.source,
                  IF o.status = "ok" THEN response_obj ELSE EmptyDict,
                  [cl EXCEPT !.tr = cl.tr \o <<"append">> \o o.tr, !.rec = o.rec, !.vec = o.vec])

\* faulty variant of RejectReply: the missing response goes unnoticed
RejectReplySilently(via, cl) ==
    /\ Report("send_prompt", via, "ok", "none", EmptyDict, cl)
    /\ UNCHANGED <<conversation, next_msg, record_store, vector_store, pc, pending, sent>>

\* `if "response" not in response: raise ValueError(...)`
RejectReply(via, cl) ==
    /\ Report("send_prompt", via, "ValueError", "conversation", EmptyDict, cl)
    /\ UNCHANGED <<conversation, next_msg, record_store, vector_store, pc, pending, sent>>

\* Conversation.send_prompt up to the reviewer's comment
ConversationSendPrompt(via, arg, prompt, hits, reply, fault) ==
    LET c == conversation[1]
        dynamic == settings.use_rag_data = "DYNAMIC"
        searched(ok) == [NoCalls EXCEPT !.arg = <<arg>>,
                                        !.search = <<[input |-> prompt, top_k |-> TopK, table |-> EmbeddingsTable,
                                                      hits |-> IF ok THEN hits ELSE <<>>]>>]
        rag_list == BuildRagList(settings, c.conversation_history, hits)
        called == [(IF dynamic THEN searched(TRUE) ELSE [NoCalls EXCEPT !.arg = <<arg>>])
                     EXCEPT !.tr = (IF dynamic THEN <<"nearest_search", "get_info">> ELSE <<>>)
                                   \o <<"llm.send_prompt">>,
                            !.llm = <<LLMArgs(prompt, rag_list)>>]
        cl == [called EXCEPT !.reply = <<reply>>]
        Untouched == UNCHANGED <<conversation, next_msg, record_store, vector_store, pc, pending, sent>>
    IN  IF dynamic /\ Raises("nearest_search", "vector", connected, fault)
        THEN /\ Report("send_prompt", via, "HandlerError", "vector", EmptyDict,
                       [searched(FALSE) EXCEPT !.tr = <<"nearest_search">>])
             /\ Untouched
        ELSE IF dynamic /\ fault = "get_info"
        THEN /\ Report("send_prompt", via, "HandlerError", "vector", EmptyDict,
                       [searched(TRUE) EXCEPT !.tr = <<"nearest_search", "get_info">>])
             /\ Untouched
        ELSE IF Raises("llm", "llm", connected, fault)
        THEN /\ Report("send_prompt", via, "HandlerError", "llm", EmptyDict, called)
             /\ Untouched
        ELSE IF "response" \notin DOMAIN reply
        THEN RejectReply(via, cl)
        ELSE IF settings.wait_for_manual_data
        THEN /\ pc' = "await_comment"
             /\ pending' = [via |-> via, prompt |-> prompt, reply |-> reply]
             /\ Report("send_prompt", via, "blocked", "none", EmptyDict,
                       [cl EXCEPT !.tr = cl.tr \o <<"input">>])
             /\ UNCHANGED <<conversation, next_msg, record_store, vector_store, sent>>
        ELSE /\ FinishSendPrompt(via, prompt, reply, "", cl, fault)
             /\ UNCHANGED <<pc, pending>>

\* InteractionManager.send_prompt (through lims_interface.send_prompt when
\* via = "api"); hits, reply and fault are the environment's part
SendPrompt(via, prompt, hits, reply, fault) ==
    /\ pc = "idle"
    /\ Callable(via)
    /\ IF ApiDenied(via)
       THEN /\ NotInitialized("send_prompt", via)
            /\ UNCHANGED <<conversation, next_msg, record_store, vector_store, pc, pending, sent>>
       ELSE IF conversation = <<>>
       THEN /\ Report("send_prompt", via, "RuntimeError", "im", EmptyDict, NoCalls)
            /\ UNCHANGED <<conversation, next_msg, record_store, vector_store, pc, pending, sent>>
       ELSE ConversationSendPrompt(via, prompt, FullPrompt(settings, prompt), hits, reply, fault)
    /\ UNCHANGED <<im, connected, settings, config, handles, db, next_conv>>

\* input("Comment: ") returns: the reviewer typed a line or closed the input
SupplyComment(line, fault) ==
    /\ pc = "await_comment"
    /\ pc' = "idle"
    /\ pending' = NoPending
    /\ FinishSendPrompt(pending.via, pending.prompt, pending.reply,
                        IF line = "EOF" THEN "" ELSE strip(line), [calls EXCEPT !.input = <<line>>], fault)
    /\ UNCHANGED <<im, connected, settings, config, handles, db, next_conv>>

\* faulty variant of SetLast: the oldest history entry is replaced
SetFirst(history, item) == [history EXCEPT ![1] = item]

\* replace the last entry of a non-empty history
SetLast(history, item) == [history EXCEPT ![Len(history)] = item]

\* faulty variant of CommitAndReport: the changed turn is not committed
ReportWithoutCommit(op, via, c2, fault) ==
    /\ conversation' = <<c2>>
    /\ Report(op, via, "ok", "none", EmptyDict, NoCalls)
    /\ UNCHANGED <<record_store, vector_store>>

\* run _save_last_message_in_data on conversation c2 and report as op
CommitAndReport(op, via, c2, fault) ==
    LET o == Save(c2, connected, fault)
    IN  /\ conversation' = <<c2>>
        /\ record_store' = ApplyRecordCalls(record_store, o.rec)
        /\ vector_store' = ApplyVectorCalls(vector_store, o.vec)
        /\ Report(op, via, o.status, o.source, EmptyDict,
                  [NoCalls EXCEPT !.tr = o.tr, !.rec = o.rec, !.vec = o.vec])

\* a call that raises from the orchestration's own code without touching anything
Refuse(op, via, status, source) ==
    /\ Report(op, via, status, source, EmptyDict, NoCalls)
    /\ UNCHANGED <<conversation, record_store, vector_store>>

\* InteractionManager.add_metadata -> Conversation.add_metadata
AddMetadata(via, to_conversation, data, fault) ==
    /\ pc = "idle"
    /\ Callable(via)
    /\ IF ApiDenied(via)
       THEN NotInitialized("add_metadata", via) /\ UNCHANGED <<conversation, record_store, vector_store>>
       ELSE IF conversation = <<>>
       THEN Refuse("add_metadata", via, "RuntimeError", "im")
       ELSE LET c == conversation[1]
                h == c.conversation_history
            IN  IF to_conversation
                THEN /\ conversation' = <<[c EXCEPT !.conversation_metadata = DictUpdate(@, data)]>>
                     /\ Report("add_metadata", via, "ok", "none", EmptyDict, NoCalls)
                     /\ UNCHANGED <<record_store, vector_store>>
                ELSE IF h = <<>>
                THEN Refuse("add_metadata", via, "IndexError", "conversation")
                ELSE IF "metadata" \notin DOMAIN h[Len(h)]
                THEN Refuse("add_metadata", via, "KeyError", "conversation")
                ELSE LET last_msg == h[Len(h)]
                         upd == [last_msg EXCEPT !["metadata"] = DictUpdate(@, data)]
                     IN  CommitAndReport("add_metadata", via,
                                         [c EXCEPT !.conversation_history = SetLast(h, upd)], fault)
    /\ UNCHANGED <<im, connected, settings, config, handles, db, next_conv, next_msg, pc, pending, sent>>

\* faulty variant of ChangeComment: the commented turn is committed at once
ChangeCommentAndCommit(via, comment) ==
    /\ pc = "idle"
    /\ Callable(via)
    /\ IF ApiDenied(via)
       THEN NotInitialized("change_comment", via) /\ UNCHANGED <<conversation, record_store, vector_store>>
       ELSE IF conversation = <<>> \/ conversation[1].conversation_history = <<>>
       THEN Refuse("change_comment", via, "RuntimeError", "im")
       ELSE LET c == conversation[1]
                h == c.conversation_history
            IN  CommitAndReport("change_comment", via,
                                [c EXCEPT !.conversation_history =
                                   SetLast(h, DictUpdate(h[Len(h)], "comment" :> comment))], "none")
    /\ UNCHANGED <<im, connected, settings, config, handles, db, next_conv, next_msg, pc, pending, sent>>

\* InteractionManager.change_comment -> Conversation.change_comment
ChangeComment(via, comment) ==
    /\ pc = "idle"
    /\ Callable(via)
    /\ IF ApiDenied(via)
       THEN NotInitialized("change_comment", via) /\ UNCHANGED conversation
       ELSE IF conversation = <<>>
       THEN Report("change_comment", via, "RuntimeError", "im", EmptyDict, NoCalls) /\ UNCHANGED conversation
       ELSE LET c == conversation[1]
                h == c.conversation_history
            IN  IF Len(h) = 0
                THEN /\ Report("change_comment", via, "IndexError", "conversation", EmptyDict, NoCalls)
                     /\ UNCHANGED conversation
                ELSE /\ conversation' = <<[c EXCEPT !.conversation_history =
                                              SetLast(h, DictUpdate(h[Len(h)], "comment" :> comment))]>>
                     /\ Report("change_comment", via, "ok", "none", EmptyDict, NoCalls)
    /\ UNCHANGED <<im, connected, settings, config, handles, db, next_conv, next_msg, record_store, vector_store, pc, pending, sent>>

\* faulty variant of ProtectedKeys: "id" is not protected
ProtectedKeysWithoutId == {"prompt", "content", "data"}

ProtectedKeys == {"prompt", "content", "data", "id"}

\* index of the first history entry with item.get("id") == id, 0 if none
\* (None is written "None")
RECURSIVE FindById(_, _, _)
FindById(history, id, i) ==
    IF i > Len(history) THEN 0
    ELSE IF DictGet(history[i], "id", "None") = id THEN i
    ELSE FindById(history, id, i + 1)

\* Conversation.remove_metadata, called on InteractionManager.conversation
RemoveMetadata(to_conversation, key, id, fault) ==
    /\ pc = "idle"
    /\ conversation # <<>>
    /\ LET c == conversation[1]
           h == c.conversation_history
           op == "remove_metadata"
           via == "conversation"
       IN  IF key \in ProtectedKeys
           THEN Refuse(op, via, "ValueError", "protected_keys")
           ELSE IF to_conversation
           THEN IF key \in DOMAIN c.conversation_metadata
                THEN LET c2 == [c EXCEPT !.conversation_metadata = DictDel(@, key)]
                     IN  IF h = <<>>
                         THEN /\ conversation' = <<c2>>
                              /\ Report(op, via, "IndexError", "conversation", EmptyDict, NoCalls)
                              /\ UNCHANGED <<record_store, vector_store>>
                         ELSE CommitAndReport(op, via, c2, fault)
                ELSE Refuse(op, via, "KeyError", "conversation")
           ELSE LET i == FindById(h, id, 1)
                IN  IF i = 0
                    THEN Refuse(op, via, "ValueError", "conversation")
                    ELSE IF "metadata" \notin DOMAIN h[i]
                    THEN Refuse(op, via, "KeyError", "conversation")
                    ELSE IF key \notin DOMAIN h[i]["metadata"]
                    THEN Refuse(op, via, "KeyError", "conversation")
                    ELSE IF key \notin DOMAIN h[i]     \* del item[key]
                    THEN Refuse(op, via, "KeyError", "conversation")
                    ELSE CommitAndReport(op, via,
                           [c EXCEPT !.conversation_history = [h EXCEPT ![i] = DictDel(@, key)]], fault)
    /\ UNCHANGED <<im, connected, settings, config, handles, db, next_conv, next_msg, pc, pending, sent>>

\* the outcome of get_metadata's scan from history entry i on: item["id"]
\* raises KeyError on an entry without the key "id"
RECURSIVE ScanById(_, _, _)
ScanById(history, id, i) ==
    IF i > Len(history) THEN [status |-> "ValueError", value |-> EmptyDict]
    ELSE IF "id" \notin DOMAIN history[i] THEN [status |-> "KeyError", value |-> EmptyDict]
    ELSE IF history[i]["id"] = id THEN [status |-> "ok", value |-> history[i]["metadata"]]
    ELSE ScanById(history, id, i + 1)

\* Conversation.get_metadata, called on InteractionManager.conversation
GetMetadata(to_conversation, id) ==
    /\ pc = "idle"
    /\ conversation # <<>>
    /\ LET c == conversation[1]
           o == ScanById(c.conversation_history, id, 1)
       IN  IF to_conversation
           THEN Report("get_metadata", "conversation", "ok", "none", c.conversation_metadata, NoCalls)
           ELSE Report("get_metadata", "conversation", o.status,
                       IF o.status = "ok" THEN "none" ELSE "conversation", o.value, NoCalls)
    /\ UNCHANGED <<im, connected, settings, config, handles, db, conversation, next_conv, next_msg, record_store,
                   vector_store, pc, pending, sent>>

\* ------------------------------------------------------------------ settings
RagArgs == Payloads

\* a call that only rewrites the settings and merges `persisted` into the
\* general section of config.json (no write when it is empty)
SettingsCall(op, s2, persisted) ==
    /\ pc = "idle"
    /\ im # "None"
    /\ settings' = s2
    /\ config' = IF persisted = EmptyDict THEN config ELSE WriteSetting(config, "general", persisted)
    /\ Report(op, "im", "ok", "none", EmptyDict, NoCalls)
    /\ UNCHANGED <<im, connected, handles, db, conversation, next_conv, next_msg, record_store, vector_store, pc, pending, sent>>

\* faulty variant of SetRagData: volatile data is persisted as well
SetRagDataAlwaysPersisting(data, volatile) ==
    SettingsCall("set_rag_data",
                 IF volatile
                 THEN [settings EXCEPT !.on_the_fly_data = data, !.use_rag_data = "VOLATILE"]
                 ELSE [settings EXCEPT !.default_rag_data = data, !.use_rag_data = "PERSISTENT"],
                 "default_rag_data" :> data)

\* InteractionManager.set_rag_data
SetRagData(data, volatile) ==
    SettingsCall("set_rag_data",
                 IF volatile
                 THEN [settings EXCEPT !.on_the_fly_data = data, !.use_rag_data = "VOLATILE"]
                 ELSE [settings EXCEPT !.default_rag_data = data, !.use_rag_data = "PERSISTENT"],
                 IF volatile THEN EmptyDict ELSE "default_rag_data" :> data)

\* InteractionManager.set_rag_mode
SetRagMode(mode) ==
    /\ pc = "idle"
    /\ im # "None"
    /\ IF \/ mode = "VOLATILE" /\ ~Truthy(settings.on_the_fly_data)
          \/ mode = "PERSISTENT" /\ ~Truthy(settings.default_rag_data)
       THEN Report("set_rag_mode", "im", "ValueError", "im", EmptyDict, NoCalls) /\ UNCHANGED settings
       ELSE /\ settings' = [settings EXCEPT !.use_rag_data = mode]
            /\ Report("set_rag_mode", "im", "ok", "none", EmptyDict, NoCalls)
    /\ UNCHANGED <<config, im, connected, handles, db, conversation, next_conv, next_msg, record_store, vector_store, pc, pending, sent>>

\* InteractionManager.delete_rag_data
DeleteRagData ==
    SettingsCall("delete_rag_data",
                 [settings EXCEPT !.use_rag_data = "NONE", !.on_the_fly_data = EmptyPayload,
                                  !.default_rag_data = EmptyPayload],
                 "default_rag_data" :> EmptyPayload)

\* InteractionManager.write_setting(key, value) for the fields send_prompt reads
WriteSystemPrompt(value) ==
    SettingsCall("write_setting", [settings EXCEPT !.default_system_prompt = value],
                 "default_system_prompt" :> value)

WriteWaitForManualData(value) ==
    SettingsCall("write_setting", [settings EXCEPT !.wait_for_manual_data = value],
                 "wait_for_manual_data" :> value)

WriteSendConversationHistory(value) ==
    SettingsCall("write_setting", [settings EXCEPT !.send_conversation_history = value],
                 "send_conversation_history" :> value)

\* hasattr(Settings, key): the fields with a plain default are attributes of
\* the class, the fields with a default_factory (handlers, default_handlers,
\* on_the_fly_data, default_rag_data) are not
ClassAttributes ==
    {"use_rag_data", "default_system_prompt", "wait_for_manual_data", "send_conversation_history"}

\* the attributes the constructor gives an InteractionManager
ManagerAttributes == {"settings", "llm_handler", "persistent_handler", "vector_handler", "conversation"}

\* keys a caller may pass, and per key the values: a RAGMode member for
\* use_rag_data, a mapping for handlers
SettingKeys == {"default_system_prompt", "wait_for_manual_data", "use_rag_data", "handlers", "no_such_setting"}
SettingValues(key) ==
    CASE key = "default_system_prompt" -> {"Be brief"}
      [] key = "wait_for_manual_data" -> {TRUE}
      [] key = "use_rag_data" -> {"DYNAMIC"}
      [] key = "handlers" -> {EmptyDict}
      [] OTHER -> {"x"}

\* json.dump accepts the value: a RAGMode member is not JSON serializable
JsonSerializable(key) == key # "use_rag_data"

\* what _read_json gives after json.dump raised in the middle of the file
TruncatedFile == <<EmptyDict>>

\* InteractionManager.read_setting(key): getattr on the manager itself, which
\* has none of the Settings fields as attribute
ImReadSetting(key) ==
    /\ pc = "idle"
    /\ im # "None"
    /\ IF key \notin ClassAttributes
       THEN Report("read_setting", "im", "KeyError", "im", EmptyDict, NoCalls)
       ELSE IF key \notin ManagerAttributes
       THEN Report("read_setting", "im", "AttributeError", "im", EmptyDict, NoCalls)
       ELSE Report("read_setting", "im", "ok", "none", EmptyDict, NoCalls)
    /\ UNCHANGED <<im, connected, settings, config, handles, db, conversation, next_conv, next_msg, record_store,
                   vector_store, pc, pending, sent>>

\* InteractionManager.write_setting(key, value): setattr on the settings, then
\* SettingsHandler.write_setting(GENERAL, {key: value}); fault "OSError": the
\* file cannot be opened for writing
ImWriteSetting(key, value, fault) ==
    /\ pc = "idle"
    /\ im # "None"
    /\ IF key \notin ClassAttributes
       THEN /\ Report("write_setting", "im", "KeyError", "im", EmptyDict, NoCalls)
            /\ UNCHANGED <<settings, config>>
       ELSE /\ settings' = [settings EXCEPT ![key] = value]
            /\ IF fault = "OSError"
               THEN /\ Report("write_setting", "im", "OSError", "settings", EmptyDict, NoCalls)
                    /\ UNCHANGED config
               ELSE IF ~JsonSerializable(key)
               THEN /\ Report("write_setting", "im", "TypeError", "settings", EmptyDict, NoCalls)
                    /\ config' = TruncatedFile
               ELSE /\ Report("write_setting", "im", "ok", "none", EmptyDict, NoCalls)
                    /\ config' = WriteSetting(config, "general", key :> value)
    /\ UNCHANGED <<im, connected, handles, db, conversation, next_conv, next_msg, record_store, vector_store, pc,
                   pending, sent>>

\* ------------------------------------------- SettingsHandler, called directly
Sections == {"general", "handlers", "default_handlers"}
\* python None
None == "None"

\* SettingsHandler.read_setting(section, key); key None: the whole section.
\* The arguments are kept in calls.arg.
CallReadSetting(section, key) ==
    /\ pc = "idle"
    /\ IF config = <<>>
       THEN Report("SettingsHandler.read_setting", "settings", "FileNotFoundError", "settings", EmptyDict,
                   [NoCalls EXCEPT !.arg = <<section, key>>])
       ELSE LET section_data == Section(config[1], section)
            IN  Report("SettingsHandler.read_setting", "settings", "ok", "none",
                       IF key = None THEN section_data ELSE DictGet(section_data, key, None),
                       [NoCalls EXCEPT !.arg = <<section, key>>])
    /\ UNCHANGED <<im, connected, settings, config, handles, db, conversation, next_conv, next_msg, record_store,
                   vector_store, pc, pending, sent>>

\* SettingsHandler.write_setting(section, value)
CallWriteSetting(section, value) ==
    /\ pc = "idle"
    /\ config' = WriteSetting(config, section, value)
    /\ Report("SettingsHandler.write_setting", "settings", "ok", "none", EmptyDict, NoCalls)
    /\ UNCHANGED <<im, connected, settings, handles, db, conversation, next_conv, next_msg, record_store,
                   vector_store, pc, pending, sent>>

\* SettingsHandler.get_connection(handler_name)
CallGetConnection(handler_name) ==
    /\ pc = "idle"
    /\ IF config = <<>>
       THEN Report("SettingsHandler.get_connection", "settings", "FileNotFoundError", "settings", EmptyDict, NoCalls)
       ELSE LET handlers_block == Section(config[1], "handlers")
            IN  IF handler_name \notin DOMAIN handlers_block
                THEN Report("SettingsHandler.get_connection", "settings", "ValueError", "settings", EmptyDict, NoCalls)
                ELSE Report("SettingsHandler.get_connection", "settings", "ok", "none",
                            handlers_block[handler_name], NoCalls)
    /\ UNCHANGED <<im, connected, settings, config, handles, db, conversation, next_conv, next_msg, record_store,
                   vector_store, pc, pending, sent>>

\* SettingsHandler.set_connection(handler_name, config)
CallSetConnection(handler_name, info) ==
    /\ pc = "idle"
    /\ config' = SetConnection(config, handler_name, info)
    /\ Report("SettingsHandler.set_connection", "settings", "ok", "none", EmptyDict, NoCalls)
    /\ UNCHANGED <<im, connected, settings, handles, db, conversation, next_conv, next_msg, record_store,
                   vector_store, pc, pending, sent>>

\* SettingsHandler.initialize_settings_object()
CallInitializeSettingsObject ==
    /\ pc = "idle"
    /\ Report("SettingsHandler.initialize_settings_object", "settings", "ok", "none",
              InitializeSettingsObject(config), NoCalls)
    /\ UNCHANGED <<im, connected, settings, config, handles, db, conversation, next_conv, next_msg, record_store,
                   vector_store, pc, pending, sent>>

\* ------------------------------------------------------- the data handlers
\* json.dumps(d): the JSON text of d
JsonDumps(d) == [json |-> d]

\* _generate_embedding(text): the embedding vector of text
Embedding(text) == [embedding_of |-> text]

\* MongodbHandler.save_record.  The store is the collection "conversations":
\* _id -> document, the messages in the document's list "messages".
RECURSIVE MongodbSaveMessages(_, _, _)
MongodbSaveMessages(store, conv_id, messages) ==
    IF messages = <<>> THEN [status |-> "ok", store |-> store]
    ELSE LET msg == Head(messages)
             message_id == DictGet(msg, "message_id", "")
             stored == DictGet(store[conv_id], "messages", <<>>)
             at == {i \in 1..Len(stored) : DictGet(stored[i], "message_id", "") = message_id}
         IN  IF message_id = "" THEN [status |-> "ValueError", store |-> store]
             ELSE MongodbSaveMessages(
                    [store EXCEPT ![conv_id] =
                       DictUpdate(@, "messages" :>
                         (IF at # {}
                          THEN LET i == CHOOSE j \in at : \A j2 \in at : j <= j2    \* messages.$: the first match
                               IN  [stored EXCEPT ![i] = DictUpdate(stored[i], msg)]
                          ELSE Append(stored, msg)))],
                    conv_id, Tail(messages))

MongodbSaveRecord(store, conv, messages) ==
    LET conv_id == DictGet(conv, "conversation_id", "")
    IN  IF conv_id = "" THEN [status |-> "ValueError", store |-> store]
        ELSE MongodbSaveMessages(
               DictUpdate(store, conv_id :> DictUpdate(DictGet(store, conv_id, "_id" :> conv_id), conv)),
               conv_id, messages)

\* PostgresHandler.save_record.  The store is the tables conversations
\* (key conversation_id) and messages (key message_id); nothing is committed
\* when a message has no id.
PostgresStore(store) ==
    IF store = EmptyDict THEN [conversations |-> EmptyDict, messages |-> EmptyDict] ELSE store

RECURSIVE PostgresSaveMessages(_, _, _)
PostgresSaveMessages(rows, conv_id, messages) ==
    IF messages = <<>> THEN [status |-> "ok", rows |-> rows]
    ELSE LET msg == Head(messages)
             msg_id == DictGet(msg, "message_id", "")
             excluded == [ message_id |-> msg_id,
                           conversation_id |-> conv_id,
                           user_prompt |-> DictGet(msg, "user_prompt", None),
                           llm_response |-> DictGet(msg, "llm_response", None),
                           user_comment |-> DictGet(msg, "user_comment", None),
                           metadata |-> JsonDumps(DictGet(msg, "metadata", EmptyDict)) ]
         IN  IF msg_id = "" THEN [status |-> "ValueError", rows |-> rows]
             ELSE PostgresSaveMessages(
                    DictUpdate(rows, msg_id :>
                      (IF msg_id \in DOMAIN rows      \* ON CONFLICT (message_id) DO UPDATE
                       THEN [excluded EXCEPT !.conversation_id = rows[msg_id].conversation_id]
                       ELSE excluded)),
                    conv_id, Tail(messages))

PostgresSaveRecord(store, conv, messages) ==
    LET conv_id == DictGet(conv, "conversation_id", "")
        tables == PostgresStore(store)
        excluded == [ conversation_id |-> conv_id,
                      created_at |-> DictGet(conv, "created_at", None),
                      name |-> DictGet(conv, "name", None),
                      description |-> DictGet(conv, "description", None),
                      metadata |-> JsonDumps(DictGet(conv, "metadata", EmptyDict)) ]
        row == IF conv_id \in DOMAIN tables.conversations
               THEN [excluded EXCEPT !.created_at = tables.conversations[conv_id].created_at]
               ELSE excluded
        o == PostgresSaveMessages(tables.messages, conv_id, messages)
    IN  IF conv_id = "" \/ o.status # "ok" THEN [status |-> "ValueError", store |-> store]
        ELSE [status |-> "ok",
              store |-> [conversations |-> DictUpdate(tables.conversations, conv_id :> row), messages |-> o.rows]]

\* ChromadbHandler.save_vector -> _add_to_collection.  The store is the
\* collection: its entries in the order they were added; uuids counts the
\* uuid4 values drawn so far.  collection.add leaves an existing id alone.
ChromadbSaveVector(store, uuids, data) ==
    LET id_value == DictGet(data, "id", "")
        drawn == id_value = ""
        id == IF drawn THEN "uuid_" \o ToString(uuids + 1) ELSE id_value
        entry == [ id |-> id,
                   document |-> "PROMPT: " \o DictGet(data, "prompt", "") \o "\nRESPONSE: "
                                  \o DictGet(data, "response", ""),
                   metadata |-> [k \in DOMAIN data \ {"prompt", "response", "id"} |-> data[k]] ]
    IN  IF DictGet(data, "prompt", "") = "" /\ DictGet(data, "response", "") = ""
        THEN [status |-> "ValueError", store |-> store, uuids |-> uuids]
        ELSE [status |-> "ok",
              store |-> IF \E i \in 1..Len(store) : store[i].id = id THEN store ELSE Append(store, entry),
              uuids |-> IF drawn THEN uuids + 1 ELSE uuids]

\* PostgresHandler.save_vector.  The store is the table: message_id -> row;
\* its message_id references the table messages of the same database, whose
\* keys are message_ids.
PostgresSaveVector(store, uuids, data, message_ids) ==
    LET message_id == IF DictGet(data, "id", "") # "" THEN data["id"] ELSE DictGet(data, "message_id", "")
    IN  IF message_id = "" \/ "prompt" \notin DOMAIN data \/ "response" \notin DOMAIN data
        THEN [status |-> "ValueError", store |-> store, uuids |-> uuids]
        ELSE IF message_id \notin message_ids
        THEN [status |-> "ForeignKeyViolation", store |-> store, uuids |-> uuids]
        ELSE [status |-> "ok",
              store |-> DictUpdate(store, message_id :>
                          [ message_id |-> message_id,
                            prompt_embedding |-> Embedding(data["prompt"]),
                            response_embedding |-> Embedding(data["response"]) ]),
              uuids |-> uuids]

\* persistent_handler.save_record(conversation=conv, messages) as
\* _save_last_message_in_data calls it, on the handler bound to the role
SaveRecord(conv, messages) ==
    /\ pc = "idle"
    /\ im # "None"
    /\ LET o == IF ~connected["persistent"] THEN [status |-> "ConnectionError", store |-> db.record]
                ELSE IF handles["persistent"].name = "mongodb"
                THEN MongodbSaveRecord(db.record, conv, messages)
                ELSE PostgresSaveRecord(db.record, conv, messages)
       IN  /\ db' = [db EXCEPT !.record = o.store, !.saves = @ + 1]
           /\ Report("save_record", "conversation", o.status, IF o.status = "ok" THEN "none" ELSE "persistent",
                     EmptyDict,
                     [NoCalls EXCEPT !.tr = <<"save_record">>,
                                     !.rec = [i \in 1..Len(messages) |->
                                                [conversation |-> conv, message |-> messages[i],
                                                 turn |-> messages[i]["message_id"], ok |-> o.status = "ok"]]])
    /\ UNCHANGED <<im, connected, settings, config, handles, conversation, next_conv, next_msg, record_store,
                   vector_store, pc, pending, sent>>

\* vector_handler.save_vector(data, table) as _save_last_message_in_data
\* calls it for the turn with message_id turn
SaveVector(data, table, turn) ==
    /\ pc = "idle"
    /\ im # "None"
    /\ LET store == DictGet(db.vector, table, EmptyDict)
           o == IF ~connected["vector"] THEN [status |-> "ConnectionError", store |-> store, uuids |-> db.uuids]
                ELSE IF handles["vector"].name = "chromadb"
                THEN ChromadbSaveVector(store, db.uuids, data)
                ELSE PostgresSaveVector(store, db.uuids, data,
                                        IF handles["persistent"].inst = handles["vector"].inst
                                        THEN DOMAIN PostgresStore(db.record).messages ELSE {})
       IN  /\ db' = [db EXCEPT !.vector = DictUpdate(@, table :> o.store), !.uuids = o.uuids, !.saves = @ + 1]
           /\ Report("save_vector", "conversation", o.status, IF o.status = "ok" THEN "none" ELSE "vector",
                     EmptyDict,
                     [NoCalls EXCEPT !.tr = <<"save_vector">>,
                                     !.vec = <<[data |-> data, table |-> table, turn |-> turn,
                                                ok |-> o.status = "ok"]>>])
    /\ UNCHANGED <<im, connected, settings, config, handles, conversation, next_conv, next_msg, record_store,
                   vector_store, pc, pending, sent>>

\* ----------------------------------------------------------- specifications
\* Spec: an InteractionManager built by the caller from three handlers; its
\* life cycle, one prompt after the other, and the commit of each turn.
Next ==
    \/ \E c \in [Roles -> BOOLEAN] : Construct(c)
    \/ \E target \in Roles, data \in ConnectData : Connect(target, data)
    \/ \E role \in Roles : Disconnect(role)
    \/ \E md \in ConvMetaArgs : MayStart(MaxConvs) /\ StartConversation("im", md)
    \/ \E reply \in LLMReplies, fault \in Faults :
         next_msg < MaxTurns /\ SendPrompt("im", "Hello", <<>>, reply, fault)
    \/ \E line \in CommentInputs, fault \in SaveFaults : SupplyComment(line, fault)
    \/ \E value \in BOOLEAN : WriteWaitForManualData(value)

Spec == Init /\ [][Next]_vars

\* SpecMeta: the module API from before initialize() on; prompts and the
\* metadata and comment calls on the history they build.
NextMeta ==
    \/ Initialize("langchain", "mongodb", "chromadb")
    \/ \E target \in Roles, data \in ConnectData : Connect(target, data)
    \/ \E md \in ConvMetaArgs : MayStart(MaxConvs) /\ StartConversation("api", md)
    \/ \E prompt \in Prompts :
         next_msg < MaxMetaTurns /\ SendPrompt("api", prompt, <<>>, PlainReply, "none")
    \/ \E to_conversation \in BOOLEAN, data \in MetaData : AddMetadata("api", to_conversation, data, "none")
    \/ \E comment \in Comments : ChangeComment("api", comment)
    \/ \E to_conversation \in BOOLEAN, key \in MetaKeys, id \in MetaIds :
         RemoveMetadata(to_conversation, key, id, "none")

SpecMeta == Init /\ [][NextMeta]_vars

\* SpecRag: the context handed to the language model.  The conversation
\* already holds n committed turns (turn i: prompt "p<i>", response "r<i>");
\* the RAG settings change and one more prompt is sent.
OldTurn(i) ==
    ResponseObj("old_" \o ToString(i), "p" \o ToString(i), [response |-> "r" \o ToString(i)], "", DefaultSettings)

OldHistory(n) == [i \in 1..n |-> OldTurn(i)]

OldConversation(n) == [NewConversation(1, EmptyDict) EXCEPT !.conversation_history = OldHistory(n)]

\* history lengths SpecRag starts from: none, one, the window, beyond it
HistLens == {0, 1, MaxHist - 1, MaxHist}

InitRag ==
    /\ im = "direct"
    /\ connected = [r \in Roles |-> TRUE]
    /\ handles = DirectHandles
    /\ db = NoDb
    /\ settings = InstalledSettings
    /\ config = InstalledConfig
    /\ \E n \in HistLens :
         /\ conversation = <<OldConversation(n)>>
         /\ record_store = [id \in {OldTurn(i)["message_id"] : i \in 1..n} |->
                              RecordMessageArg(CHOOSE t \in {OldTurn(i) : i \in 1..n} : t["message_id"] = id)]
         /\ vector_store = [id \in {OldTurn(i)["message_id"] : i \in 1..n} |->
                              [data |-> VectorDataArg(CHOOSE t \in {OldTurn(i) : i \in 1..n} : t["message_id"] = id),
                               turn |-> id]]
         /\ sent = [i \in 1..n |-> [prompt |-> OldTurn(i)["prompt"], ok |-> TRUE]]
    /\ next_conv = 1
    /\ next_msg = 0
    /\ pc = "idle"
    /\ pending = NoPending
    /\ result = NoResult
    /\ calls = NoCalls

NextRag ==
    \/ \E data \in RagArgs, volatile \in BOOLEAN : SetRagData(data, volatile)
    \/ \E mode \in RAGMode : SetRagMode(mode)
    \/ DeleteRagData
    \/ \E value \in BOOLEAN : WriteSendConversationHistory(value)
    \/ \E value \in SystemPrompts : WriteSystemPrompt(value)
    \/ \E hits \in SearchHits, fault \in {"none", "nearest_search", "get_info"} :
         next_msg < MaxRagTurns /\ SendPrompt("im", "Query", hits, PlainReply, fault)

SpecRag == InitRag /\ [][NextRag]_vars

\* SpecConv: one conversation after the other on an InteractionManager
\* whose three handlers stay connected.
NextConv ==
    \/ Construct([r \in Roles |-> TRUE])
    \/ \E md \in ConvMetaArgs : MayStart(MaxStarts) /\ StartConversation("im", md)
    \/ \E prompt \in Prompts :
         next_msg < MaxConvTurns /\ SendPrompt("im", prompt, <<>>, PlainReply, "none")
    \/ \E data \in MetaData : AddMetadata("im", TRUE, data, "none")

SpecConv == Init /\ [][NextConv]_vars

\* SpecOps: the metadata and comment calls on a conversation that already
\* holds n committed turns (as in SpecRag) and may have metadata of its own.
InitOps ==
    /\ im = "direct"
    /\ connected = [r \in Roles |-> TRUE]
    /\ handles = DirectHandles
    /\ db = NoDb
    /\ settings = InstalledSettings
    /\ config = InstalledConfig
    /\ \E n \in 0..MaxOpsHist, md \in ConvMetaArgs :
         /\ conversation = <<[OldConversation(n) EXCEPT !.conversation_metadata = md]>>
         /\ record_store = [id \in {OldTurn(i)["message_id"] : i \in 1..n} |->
                              RecordMessageArg(CHOOSE t \in {OldTurn(i) : i \in 1..n} : t["message_id"] = id)]
         /\ vector_store = [id \in {OldTurn(i)["message_id"] : i \in 1..n} |->
                              [data |-> VectorDataArg(CHOOSE t \in {OldTurn(i) : i \in 1..n} : t["message_id"] = id),
                               turn |-> id]]
         /\ sent = [i \in 1..n |-> [prompt |-> OldTurn(i)["prompt"], ok |-> TRUE]]
    /\ next_conv = 1
    /\ next_msg = 0
    /\ pc = "idle"
    /\ pending = NoPending
    /\ result = NoResult
    /\ calls = NoCalls

NextOps ==
    \/ \E to_conversation \in BOOLEAN, data \in OpsData : AddMetadata("im", to_conversation, data, "none")
    \/ \E comment \in Comments : ChangeComment("im", comment)
    \/ \E to_conversation \in BOOLEAN, key \in OpsKeys, id \in OpsIds :
         RemoveMetadata(to_conversation, key, id, "none")
    \/ \E to_conversation \in BOOLEAN, id \in OpsIds : GetMetadata(to_conversation, id)

SpecOps == InitOps /\ [][NextOps]_vars

\* SpecBind: an InteractionManager is built from three handlers handed over
\* in any connection state, on a machine whose config.json is missing or
\* holds entries (written by hand or by an earlier version) for any of the
\* handler names; the manager is used, released and built again.
StoredInfo == [host |-> "old", user |-> "admin"]
BindConfigs ==
    {<<>>} \cup {<<[handlers |-> [name \in names |-> StoredInfo]]>> :
                   names \in SUBSET {HandlerName(r) : r \in Roles}}

InitBind ==
    /\ im = "None"
    /\ connected = [r \in Roles |-> FALSE]
    /\ handles = NoHandles
    /\ db = NoDb
    /\ settings = DefaultSettings
    /\ config \in BindConfigs
    /\ conversation = <<>>
    /\ next_conv = 0
    /\ next_msg = 0
    /\ record_store = EmptyDict
    /\ vector_store = EmptyDict
    /\ pc = "idle"
    /\ pending = NoPending
    /\ result = NoResult
    /\ calls = NoCalls
    /\ sent = <<>>

NextBind ==
    \/ \E c \in [Roles -> BOOLEAN] : Construct(c)
    \/ Release
    \/ \E value \in SystemPrompts : WriteSystemPrompt(value)

SpecBind == InitBind /\ [][NextBind]_vars

\* SpecInit: the handlers are resolved from identifiers or from the persisted
\* defaults, connected one role at a time, and a conversation is started.
\* config.json is missing, or was left by a run with a MongoDB and a ChromaDB
\* handler, or by a run in which PostgreSQL served both data roles.
SharedConfig ==
    <<[ general |-> InstalledConfig[1].general,
        handlers |-> [ langchain |-> HandlerInfo("llm"),
                       postgres |-> [host |-> "localhost", port |-> "5432", database |-> "lims"] ],
        default_handlers |-> [llm |-> "langchain", persistent |-> "postgres", vector |-> "postgres"] ]>>
InitConfigs == {<<>>, InstalledConfig, SharedConfig}

LLMKeys == {"langchain", SettingsKey}
PersistentKeys == {"postgres", "mongodb", SettingsKey}
VectorKeys == {"postgres", "chromadb", SettingsKey}

InitInit ==
    /\ im = "None"
    /\ connected = [r \in Roles |-> FALSE]
    /\ handles = NoHandles
    /\ db = NoDb
    /\ settings = DefaultSettings
    /\ config \in InitConfigs
    /\ conversation = <<>>
    /\ next_conv = 0
    /\ next_msg = 0
    /\ record_store = EmptyDict
    /\ vector_store = EmptyDict
    /\ pc = "idle"
    /\ pending = NoPending
    /\ result = NoResult
    /\ calls = NoCalls
    /\ sent = <<>>

NextInit ==
    \/ \E llm \in LLMKeys, persistent \in PersistentKeys, vector \in VectorKeys :
         Initialize(llm, persistent, vector)
    \/ \E fail \in Roles \cup {"none"} : ConstructFromSettings(fail)
    \/ \E target \in Roles, data \in ConnectData : Connect(target, data)
    \/ \E via \in {"api", "im"}, md \in ConvMetaArgs : MayStart(MaxStarts) /\ StartConversation(via, md)
    \/ Release

SpecInit == InitInit /\ [][NextInit]_vars

\* SpecSettings: a manager built from three handlers that are not connected
\* yet, over a config.json that is missing, empty or unreadable, or left by
\* an earlier run; settings are read and written through the manager and
\* config.json through the SettingsHandler.
SettingsConfigs == {<<>>, <<EmptyDict>>, InstalledConfig}

\* the arguments of the SettingsHandler calls
SectionValues(section) ==
    CASE section = "general" -> {"default_export_path" :> "/tmp/export"}
      [] section = "default_handlers" -> {"llm" :> "huggingface"}
      [] section = "handlers" -> {"postgres" :> [host |-> "db"]}
ReadKeys == {None, "llm"}
ConnectionNames == {"mongodb"}
ConnectionInfos == {[host |-> "db"], [user |-> "lims"]}

InitSettings ==
    /\ im = "direct"
    /\ connected = [r \in Roles |-> FALSE]
    /\ handles = DirectHandles
    /\ db = NoDb
    /\ config \in SettingsConfigs
    /\ settings = InitializeSettingsObject(config)
    /\ conversation = <<>>
    /\ next_conv = 0
    /\ next_msg = 0
    /\ record_store = EmptyDict
    /\ vector_store = EmptyDict
    /\ pc = "idle"
    /\ pending = NoPending
    /\ result = NoResult
    /\ calls = NoCalls
    /\ sent = <<>>

NextSettings ==
    \/ \E key \in SettingKeys : ImReadSetting(key)
    \/ \E key \in SettingKeys, fault \in {"none", "OSError"} :
         \E value \in SettingValues(key) : ImWriteSetting(key, value, fault)
    \/ \E section \in Sections, key \in ReadKeys : CallReadSetting(section, key)
    \/ \E section \in Sections : \E value \in SectionValues(section) : CallWriteSetting(section, value)
    \/ \E handler_name \in ConnectionNames : CallGetConnection(handler_name)
    \/ \E handler_name \in ConnectionNames, info \in ConnectionInfos : CallSetConnection(handler_name, info)
    \/ CallInitializeSettingsObject

SpecSettings == InitSettings /\ [][NextSettings]_vars

\* SpecStore: the two data handlers under the calls a Conversation makes
\* when it commits a turn: two conversations, two turns, the first turn also
\* after its comment was changed; each data role bound to either of its
\* handlers, all connected.
StoreConversations == {RecordConversationArg(NewConversation(n, EmptyDict)) : n \in 1..2}
StoreTurns ==
    {ResponseObj(MsgId(1), "Hello", PlainReply, comment, DefaultSettings) : comment \in {"", "ok"}}
      \cup {ResponseObj(MsgId(2), "Again", PlainReply, "", DefaultSettings)}
\* the messages argument for these turns, and an update that names only the
\* keys it changes
StoreMessages ==
    {RecordMessageArg(last_msg) : last_msg \in StoreTurns} \cup {[message_id |-> MsgId(1), user_comment |-> "late"]}

InitStore ==
    /\ im = "direct"
    /\ connected = [r \in Roles |-> TRUE]
    /\ \E persistent \in {"mongodb", "postgres"}, vector \in {"chromadb", "postgres"} :
         handles = ResolveAll(InstalledConfig, "langchain", persistent, vector).handles
    /\ db = NoDb
    /\ settings = InstalledSettings
    /\ config = InstalledConfig
    /\ conversation = <<>>
    /\ next_conv = 0
    /\ next_msg = 0
    /\ record_store = EmptyDict
    /\ vector_store = EmptyDict
    /\ pc = "idle"
    /\ pending = NoPending
    /\ result = NoResult
    /\ calls = NoCalls
    /\ sent = <<>>

NextStore ==
    \/ \E conv \in StoreConversations, msg \in StoreMessages :
         db.saves < MaxSaves /\ SaveRecord(conv, <<msg>>)
    \/ \E last_msg \in StoreTurns :
         db.saves < MaxSaves /\ SaveVector(VectorDataArg(last_msg), EmbeddingsTable, last_msg["message_id"])

SpecStore == InitStore /\ [][NextStore]_vars

\* ---------------------------------------------------------------- properties
\* C1 (Spec): start_conversation succeeds only when the three handlers all
\* report connected at the call; otherwise it raises, calls nothing on the
\* handlers but is_connected, and the active conversation and both stores stay
\* as they were.
C1_StartNeedsAllConnected ==
    [][result'.op = "start_conversation" =>
         IF \A r \in Roles : connected[r]
         THEN /\ result'.status = "ok"
              /\ conversation' # <<>>
              /\ conversation'[1].conversation_history = <<>>
         ELSE /\ result'.status = "RuntimeError"
              /\ calls'.tr = <<"llm.is_connected", "persistent.is_connected", "vector.is_connected">>
              /\ calls'.llm = <<>> /\ calls'.search = <<>> /\ calls'.rec = <<>> /\ calls'.vec = <<>>
              /\ UNCHANGED <<conversation, record_store, vector_store>>]_vars

\* a conversation with one turn is active, a handler has gone away, and a
\* further start_conversation has been refused
C1_RefusedWithActiveConversation ==
    /\ result.op = "start_conversation"
    /\ result.status = "RuntimeError"
    /\ conversation # <<>>
    /\ Len(conversation[1].conversation_history) = 1
    /\ \E r \in Roles : ~connected[r]

\* C2 (SpecMeta): while no conversation has been started, send_prompt,
\* add_metadata and change_comment raise RuntimeError and call neither the
\* language model nor a store; before initialize() the module API raises the
\* same from its own guard.
C2_NoConversationNoCalls ==
    [][(/\ result'.op \in {"send_prompt", "add_metadata", "change_comment"}
        /\ (im # "api" \/ conversation = <<>>)) =>
         /\ result'.status = "RuntimeError"
         /\ result'.source = (IF im # "api" THEN "api" ELSE "im")
         /\ calls' = NoCalls
         /\ UNCHANGED <<conversation, record_store, vector_store, next_msg>>]_vars

\* the manager is initialized and fully connected, no conversation was
\* started, and send_prompt has been refused
C2_RefusedWithoutConversation ==
    /\ im = "api"
    /\ conversation = <<>>
    /\ \A r \in Roles : connected[r]
    /\ result.op = "send_prompt"
    /\ result.status = "RuntimeError"
    /\ calls = NoCalls

\* C3 (SpecMeta): when every send_prompt of the conversation succeeded, the
\* history holds exactly the prompts received, in the order of the calls,
\* whatever add_metadata, remove_metadata and change_comment calls came in
\* between; no step on a conversation shortens its history or changes the
\* prompt or the identifier at a position.
C3_HistoryOrdering ==
    /\ [](conversation # <<>> /\ (\A i \in 1..Len(sent) : sent[i].ok) =>
            LET h == conversation[1].conversation_history
            IN  /\ Len(h) = Len(sent)
                /\ \A i \in 1..Len(sent) : h[i]["prompt"] = sent[i].prompt)
    /\ [][(/\ conversation # <<>> /\ conversation' # <<>>
           /\ conversation'[1].conversation_id = conversation[1].conversation_id) =>
            LET h == conversation[1].conversation_history
                h2 == conversation'[1].conversation_history
            IN  /\ Len(h2) >= Len(h)
                /\ \A i \in 1..Len(h) : /\ h2[i]["prompt"] = h[i]["prompt"]
                                        /\ h2[i]["message_id"] = h[i]["message_id"]]_vars

\* two turns with different prompts, and a remove_metadata between or after
\* them has deleted a field of a turn
C3_TwoTurnsAfterRemove ==
    /\ conversation # <<>>
    /\ Len(conversation[1].conversation_history) = 2
    /\ conversation[1].conversation_history[1]["prompt"] # conversation[1].conversation_history[2]["prompt"]
    /\ result.op = "remove_metadata"
    /\ result.status = "ok"

\* C4 (Spec), as stated: a successful send_prompt returns the reply of the
\* language model as its response text and makes exactly one save_record and
\* one save_vector call, both carrying the identifier generated for the turn.
C4_OneWriteEachSameId ==
    (result.op = "send_prompt" /\ result.status = "ok") =>
        /\ result.value["content"] = calls.reply[1]["response"]
        /\ Len(calls.rec) = 1
        /\ Len(calls.vec) = 1
        /\ calls.rec[1].message.message_id = MsgId(next_msg)
        /\ calls.vec[1].data["message_id"] = calls.rec[1].message.message_id

\* C5 (Spec): the events of one send_prompt come in the order language model,
\* reviewer input (only with wait_for_manual_data), append, save_record,
\* save_vector; a call that raises stops somewhere along that order; no step
\* that leaves the call waiting for the comment touches the history or a
\* store; a closed input gives the empty comment.
C5_EventOrder ==
    /\ [](result.op = "send_prompt" /\ calls.llm # <<>> =>
            LET full == <<"llm.send_prompt">>
                        \o (IF settings.wait_for_manual_data THEN <<"input">> ELSE <<>>)
                        \o <<"append", "save_record", "save_vector">>
                h == conversation[1].conversation_history
            IN  /\ Len(calls.tr) <= Len(full)
                /\ SubSeq(full, 1, Len(calls.tr)) = calls.tr
                /\ (result.status = "ok" =>
                      /\ calls.tr = full
                      /\ h[Len(h)] = result.value
                      /\ record_store[result.value["message_id"]].user_comment = result.value["comment"])
                /\ (result.status = "blocked" <=> pc = "await_comment")
                /\ (result.status = "blocked" => calls.tr = <<"llm.send_prompt", "input">>)
                /\ (calls.input = <<"EOF">> /\ "append" \in {calls.tr[i] : i \in 1..Len(calls.tr)} =>
                      h[Len(h)]["comment"] = ""))
    /\ [][pc' = "await_comment" => UNCHANGED <<conversation, record_store, vector_store, next_msg>>]_vars

\* a send_prompt that waited for the reviewer, saw the input closed, and
\* went through to both writes
C5_CommittedAfterClosedInput ==
    /\ result.op = "send_prompt"
    /\ result.status = "ok"
    /\ calls.input = <<"EOF">>
    /\ calls.tr = <<"llm.send_prompt", "input", "append", "save_record", "save_vector">>

\* the turns that have an entry in the vector store
VectorTurns == {vector_store[k].turn : k \in DOMAIN vector_store}

\* C6 (Spec): when in the commit of a turn save_record returned and
\* save_vector then raised, send_prompt raises the error of the vector store,
\* the record written stays in the record store, the turn stays in the
\* history, each write was called once, and the vector store has no entry of
\* the turn.
C6_VectorFailureSurfaced ==
    (/\ result.op = "send_prompt"
     /\ calls.rec # <<>> /\ calls.rec[1].ok
     /\ calls.vec # <<>> /\ ~calls.vec[1].ok) =>
        LET h == conversation[1].conversation_history
            id == calls.rec[1].message.message_id
        IN  /\ result.status = "HandlerError"
            /\ result.source = "vector"
            /\ Len(calls.rec) = 1
            /\ Len(calls.vec) = 1
            /\ id \in DOMAIN record_store
            /\ record_store[id] = calls.rec[1].message
            /\ h[Len(h)]["message_id"] = id
            /\ id \notin VectorTurns

\* send_prompt has raised the vector store's error after the record was written
C6_RecordKeptAfterVectorError ==
    /\ result.op = "send_prompt"
    /\ result.status = "HandlerError"
    /\ result.source = "vector"
    /\ Len(calls.rec) = 1
    /\ calls.rec[1].ok
    /\ calls.rec[1].message.message_id \in DOMAIN record_store

\* C7 (Spec), as stated: a turn is in the record store if and only if it is
\* in the vector store.
C7_WrittenTogether ==
    \A t \in {MsgId(i) : i \in 1..next_msg} : t \in DOMAIN record_store <=> t \in VectorTurns

\* C7 (Spec), amended: a commit calls save_vector only after its save_record
\* for the same turn has returned, so every turn with an entry in the vector
\* store has an entry in the record store (the converse fails when
\* save_vector raises).
C7_VectorEntryImpliesRecordEntry ==
    /\ \A t \in VectorTurns : t \in DOMAIN record_store
    /\ (calls.vec # <<>> =>
          /\ Len(calls.rec) = 1
          /\ calls.rec[1].ok
          /\ calls.rec[1].turn = calls.vec[1].turn)

\* the commit called save_vector after save_record, and its turn is in the
\* record store alone
C7_RecordWithoutVector ==
    /\ result.op = "send_prompt"
    /\ \E t \in DOMAIN record_store : t \notin VectorTurns
    /\ calls.vec # <<>>

\* the payload the RAG mode reads, and whether it contributes entries
ModePayload == IF settings.use_rag_data = "VOLATILE" THEN settings.on_the_fly_data ELSE settings.default_rag_data
PayloadEntries == IF ModePayload.kind \in {"dict", "list"} THEN ModePayload.vals ELSE <<>>

\* C8 (SpecRag), as stated: in every mode but NONE the language model gets a
\* non-empty context as second argument, in mode NONE it gets the prompt alone.
C8_ContextIffModeNotNone ==
    (result.op = "send_prompt" /\ calls.llm # <<>>) =>
        IF settings.use_rag_data # "NONE"
        THEN calls.llm[1].nargs = 2 /\ calls.llm[1].rag # <<>>
        ELSE calls.llm[1].nargs = 1

\* C8 (SpecRag), amended: the context is passed as second argument exactly
\* when the list built is not empty: history lines (flag on, a turn already in
\* history), payload entries (VOLATILE, PERSISTENT) or hits (DYNAMIC);
\* otherwise the language model is called with the prompt alone.
C8_ContextIffListNotEmpty ==
    (result.op = "send_prompt" /\ calls.llm # <<>>) =>
        LET prior == Len(conversation[1].conversation_history) - 1
            nonEmpty == \/ settings.send_conversation_history /\ prior > 0
                        \/ settings.use_rag_data \in {"VOLATILE", "PERSISTENT"} /\ PayloadEntries # <<>>
                        \/ settings.use_rag_data = "DYNAMIC" /\ calls.search[1].hits # <<>>
        IN  /\ calls.llm[1].nargs = (IF nonEmpty THEN 2 ELSE 1)
            /\ (calls.llm[1].rag # <<>> <=> nonEmpty)

\* mode VOLATILE with an empty payload and no history lines: prompt alone
C8_VolatileWithoutContext ==
    /\ result.op = "send_prompt"
    /\ result.status = "ok"
    /\ settings.use_rag_data = "VOLATILE"
    /\ calls.llm[1].nargs = 1

\* C9 (SpecRag): the context list is, in this order, the lines "PREVIOUS
\* PROMPT: p", "PREVIOUS RESPONSE: r" of the last min(10, n) of the n turns
\* already in history, oldest first (flag on only), then the entries of the
\* mode: the normalized payload (VOLATILE, PERSISTENT), the hits of
\* nearest_search(prompt, 10, "lims_embeddings") (DYNAMIC), nothing (NONE).
C9_ContextOrder ==
    (result.op = "send_prompt" /\ calls.llm # <<>>) =>
        LET h == conversation[1].conversation_history
            n == Len(h) - 1
            k == IF settings.send_conversation_history THEN (IF n < 10 THEN n ELSE 10) ELSE 0
            rag == calls.llm[1].rag
            mode == settings.use_rag_data
            tail == CASE mode \in {"VOLATILE", "PERSISTENT"} -> PayloadEntries
                      [] mode = "DYNAMIC" -> calls.search[1].hits
                      [] OTHER -> <<>>
        IN  /\ Len(rag) = 2 * k + Len(tail)
            /\ \A j \in 1..k : /\ rag[2 * j - 1] = "PREVIOUS PROMPT: " \o h[n - k + j]["prompt"]
                               /\ rag[2 * j] = "PREVIOUS RESPONSE: " \o h[n - k + j]["content"]
            /\ \A j \in 1..Len(tail) : rag[2 * k + j] = tail[j]
            /\ IF mode = "DYNAMIC"
               THEN /\ Len(calls.search) = 1
                    /\ calls.search[1].input = calls.llm[1].prompt
                    /\ calls.search[1].top_k = 10
                    /\ calls.search[1].table = "lims_embeddings"
               ELSE calls.search = <<>>

\* more than ten turns in history, the flag on, mode DYNAMIC with a hit:
\* twenty history lines and the hit
C9_WindowAndHit ==
    /\ result.op = "send_prompt"
    /\ result.status = "ok"
    /\ Len(conversation[1].conversation_history) > 11
    /\ settings.use_rag_data = "DYNAMIC"
    /\ Len(calls.llm[1].rag) = 21

\* C10 (SpecRag): the language model receives "SYSTEM PROMPT: {prefix}
\* PROMPT: {prompt}" when default_system_prompt is not "-1" and the prompt of
\* the caller as it is otherwise, with or without a context list; the turn
\* keeps the same text.
C10_PromptSentDownstream ==
    (result.op = "send_prompt" /\ calls.llm # <<>>) =>
        LET p == calls.arg[1]
            prefix == settings.default_system_prompt
            text == IF prefix # "-1" THEN "SYSTEM PROMPT: " \o prefix \o " PROMPT: " \o p ELSE p
            h == conversation[1].conversation_history
        IN  /\ calls.llm[1].prompt = text
            /\ h[Len(h)]["prompt"] = text

\* a prefix is set and the prompt went out together with a context list
C10_PrefixedWithContext ==
    /\ result.op = "send_prompt"
    /\ result.status = "ok"
    /\ settings.default_system_prompt = "Be brief"
    /\ calls.llm[1].nargs = 2
    /\ calls.llm[1].prompt = "SYSTEM PROMPT: Be brief PROMPT: Query"

\* C11 (Spec): when the reply of the language model has no "response" key,
\* send_prompt raises ValueError from the conversation's own check; no turn
\* is appended, no identifier is used up, neither store is called, and the
\* call does not wait for a comment.
C11_NoResponseNoTurn ==
    [][(/\ result'.op = "send_prompt"
        /\ calls'.reply # <<>>
        /\ "response" \notin DOMAIN calls'.reply[1]) =>
         /\ result'.status = "ValueError"
         /\ result'.source = "conversation"
         /\ calls'.rec = <<>> /\ calls'.vec = <<>>
         /\ "append" \notin {calls'.tr[i] : i \in 1..Len(calls'.tr)}
         /\ pc' = "idle"
         /\ UNCHANGED <<conversation, record_store, vector_store, next_msg>>]_vars

\* a conversation is active, the reviewer is to be asked, and a reply
\* without "response" has been refused
C11_RefusedBeforeComment ==
    /\ result.op = "send_prompt"
    /\ result.status = "ValueError"
    /\ settings.wait_for_manual_data
    /\ conversation # <<>>
    /\ conversation[1].conversation_history = <<>>
    /\ calls.reply = <<BadReply>>

\* C12 (SpecMeta), as stated: no step on a conversation changes the
\* identifier, the prompt or the response text of a turn; a turn other than
\* the most recent one does not change at all; and the most recent turn
\* changes only in add_metadata, remove_metadata or change_comment.
C12_TurnsImmutable ==
    [][(/\ conversation # <<>> /\ conversation' # <<>>
        /\ conversation'[1].conversation_id = conversation[1].conversation_id) =>
         LET h == conversation[1].conversation_history
             h2 == conversation'[1].conversation_history
         IN  /\ Len(h2) >= Len(h)
             /\ \A i \in 1..Len(h) :
                  /\ h2[i]["message_id"] = h[i]["message_id"]
                  /\ h2[i]["prompt"] = h[i]["prompt"]
                  /\ h2[i]["content"] = h[i]["content"]
                  /\ (i < Len(h) => h2[i] = h[i])
                  /\ (h2[i] # h[i] => result'.op \in {"add_metadata", "remove_metadata", "change_comment"})]_vars

\* C13 (SpecConv): a start_conversation that succeeds leaves exactly one
\* active conversation, with an empty history, the metadata supplied, and an
\* identifier no conversation had before; the history of the active
\* conversation holds the turns sent to it and no other.
C13_ReplacedWholesale ==
    /\ [](Len(conversation) <= 1)
    /\ [](conversation # <<>> =>
            LET h == conversation[1].conversation_history
            IN  /\ Len(h) = Len(sent)
                /\ \A i \in 1..Len(h) : h[i]["prompt"] = sent[i].prompt)
    /\ [][\A md \in {EmptyDict, [topic |-> "test"]} :
            (StartConversation("im", md) /\ result'.status = "ok") =>
               /\ Len(conversation') = 1
               /\ conversation'[1].conversation_history = <<>>
               /\ conversation'[1].conversation_metadata = md
               /\ conversation'[1].conversation_id \notin {ConvId(i) : i \in 1..next_conv}
               /\ (conversation # <<>> =>
                     conversation'[1].conversation_id # conversation[1].conversation_id)]_vars

\* a conversation with a turn and metadata of its own has been replaced by a
\* second one started with other metadata
C13_SecondConversationStarted ==
    /\ result.op = "start_conversation"
    /\ result.status = "ok"
    /\ next_conv = 2
    /\ record_store # EmptyDict
    /\ conversation[1].conversation_history = <<>>
    /\ conversation[1].conversation_metadata = [topic |-> "test"]

\* C14 (SpecOps): remove_metadata with the key "prompt", "content", "data"
\* or "id" raises ValueError for the conversation and for a message, for
\* every id, whether or not the key is there; the conversation metadata, the
\* history and both stores stay as they were and no store is called.
C14_ProtectedKeysRefused ==
    [][result'.op = "remove_metadata" =>
         \A to_conversation \in BOOLEAN, key \in {"prompt", "content", "data", "id"}, id \in OpsIds :
            RemoveMetadata(to_conversation, key, id, "none") =>
               /\ result'.status = "ValueError"
               /\ calls' = NoCalls
               /\ UNCHANGED <<conversation, record_store, vector_store>>]_vars

\* the removal of a protected key has been refused while the conversation
\* metadata and the metadata of the only turn both hold the key "id"
C14_RefusedWithKeyPresent ==
    /\ result.op = "remove_metadata"
    /\ result.status = "ValueError"
    /\ result.source = "protected_keys"
    /\ "id" \in DOMAIN conversation[1].conversation_metadata
    /\ Len(conversation[1].conversation_history) = 1
    /\ "id" \in DOMAIN conversation[1].conversation_history[1]["metadata"]


\* C15 (SpecOps): remove_metadata(conversation=False, key, id), with id the
\* identifier of a turn of the history and key an unprotected key of that
\* turn's metadata, succeeds, removes exactly that key from that turn's
\* metadata, leaves every other field of the turn and every other turn as they
\* were, and re-commits the turn identified by id to the two stores.
C15_RemovesKeyOfIdentifiedTurn ==
    [][result'.op = "remove_metadata" =>
         \A key \in OpsKeys \ {"prompt", "content", "data", "id"}, id \in OpsIds :
            LET h == conversation[1].conversation_history
                hit == {i \in 1..Len(h) : h[i]["message_id"] = id}
            IN  \A i \in hit :
                   (key \in DOMAIN h[i]["metadata"] /\ RemoveMetadata(FALSE, key, id, "none")) =>
                      /\ result'.status = "ok"
                      /\ conversation'[1].conversation_history =
                            [h EXCEPT ![i] = [h[i] EXCEPT !["metadata"] = DictDel(@, key)]]
                      /\ conversation'[1].conversation_metadata = conversation[1].conversation_metadata
                      /\ Len(calls'.rec) = 1 /\ calls'.rec[1].turn = id
                      /\ Len(calls'.vec) = 1 /\ calls'.vec[1].turn = id]_vars


\* C16 (SpecOps): get_metadata(conversation=False, id) returns the metadata of
\* the turn whose identifier (the message_id send_prompt gave it) equals id,
\* and fails with a not-found error (ValueError) when no turn has that
\* identifier; get_metadata(conversation=True) returns the conversation-level
\* metadata.
C16_GetMetadataById ==
    [][result'.op = "get_metadata" =>
         \A id \in OpsIds :
            LET h == conversation[1].conversation_history
                hit == {i \in 1..Len(h) : h[i]["message_id"] = id}
            IN  /\ GetMetadata(TRUE, id) =>
                     result'.status = "ok" /\ result'.value = conversation[1].conversation_metadata
                /\ GetMetadata(FALSE, id) =>
                     IF hit = {}
                     THEN result'.status = "ValueError"
                     ELSE result'.status = "ok" /\ \E i \in hit : result'.value = h[i]["metadata"]]_vars


\* is dictionary d2 the dictionary d after d.update(data)?
IsMerged(d2, d, data) ==
    /\ DOMAIN d2 = DOMAIN d \cup DOMAIN data
    /\ \A k \in DOMAIN data : d2[k] = data[k]
    /\ \A k \in DOMAIN d \ DOMAIN data : d2[k] = d[k]

\* C17 (SpecOps): add_metadata(conversation=True, data) merges data into the
\* conversation-level metadata and touches no turn and no store;
\* add_metadata(conversation=False, data), on a history that is not empty,
\* merges data into the metadata of the most recent turn only, leaves all
\* earlier turns unchanged, and re-commits that turn to both stores.
C17_AddMetadataTarget ==
    [][result'.op = "add_metadata" =>
         \A data \in OpsData :
            LET c == conversation[1]
                c2 == conversation'[1]
                h == c.conversation_history
                h2 == c2.conversation_history
                n == Len(h)
            IN  /\ AddMetadata("im", TRUE, data, "none") =>
                     /\ result'.status = "ok"
                     /\ IsMerged(c2.conversation_metadata, c.conversation_metadata, data)
                     /\ h2 = h
                     /\ calls' = NoCalls
                     /\ UNCHANGED <<record_store, vector_store>>
                /\ (n > 0 /\ AddMetadata("im", FALSE, data, "none")) =>
                     /\ result'.status = "ok"
                     /\ c2.conversation_metadata = c.conversation_metadata
                     /\ Len(h2) = n
                     /\ \A i \in 1..(n - 1) : h2[i] = h[i]
                     /\ IsMerged(h2[n]["metadata"], h[n]["metadata"], data)
                     /\ DOMAIN h2[n] = DOMAIN h[n]
                     /\ \A k \in DOMAIN h[n] \ {"metadata"} : h2[n][k] = h[n][k]
                     /\ calls'.tr = <<"save_record", "save_vector">>
                     /\ Len(calls'.rec) = 1 /\ Len(calls'.vec) = 1
                     /\ calls'.rec[1].ok /\ calls'.vec[1].ok
                     /\ calls'.rec[1].turn = h[n]["message_id"]
                     /\ calls'.vec[1].turn = h[n]["message_id"]
                     /\ calls'.rec[1].message.metadata = h2[n]["metadata"]
                     /\ \A k \in DOMAIN data : calls'.vec[1].data[k] = data[k]
                     /\ record_store'[h[n]["message_id"]].metadata = h2[n]["metadata"]]_vars

C17_LastOfTwoTurnsAnnotated ==
    /\ result.op = "add_metadata"
    /\ result.status = "ok"
    /\ Len(calls.rec) = 1
    /\ Len(conversation[1].conversation_history) = 2
    /\ "id" \in DOMAIN conversation[1].conversation_history[2]["metadata"]
    /\ "id" \notin DOMAIN conversation[1].conversation_history[1]["metadata"]
    /\ "id" \notin DOMAIN conversation[1].conversation_metadata


\* C18 (SpecOps): change_comment(comment) overwrites the comment of the most
\* recent turn only, leaving every other turn, every other field and the
\* conversation metadata unchanged; on an empty history it fails with the
\* empty-history error (IndexError) and changes nothing.
C18_CommentOfLastTurnOnly ==
    [][result'.op = "change_comment" =>
         \A comment \in Comments :
            LET c == conversation[1]
                c2 == conversation'[1]
                h == c.conversation_history
                h2 == c2.conversation_history
                n == Len(h)
            IN  ChangeComment("im", comment) =>
                   IF n = 0
                   THEN /\ result'.status = "IndexError"
                        /\ UNCHANGED <<conversation, record_store, vector_store>>
                   ELSE /\ result'.status = "ok"
                        /\ c2.conversation_metadata = c.conversation_metadata
                        /\ Len(h2) = n
                        /\ \A i \in 1..(n - 1) : h2[i] = h[i]
                        /\ h2[n]["comment"] = comment
                        /\ DOMAIN h2[n] = DOMAIN h[n] \cup {"comment"}
                        /\ \A k \in DOMAIN h[n] \ {"comment"} : h2[n][k] = h[n][k]]_vars

C18_SecondTurnCommented ==
    /\ result.op = "change_comment"
    /\ result.status = "ok"
    /\ Len(conversation[1].conversation_history) = 2
    /\ conversation[1].conversation_history[2]["comment"] = "ok"
    /\ conversation[1].conversation_history[1]["comment"] = ""


\* C19 (SpecRag): in mode VOLATILE or PERSISTENT the result of send_prompt
\* carries under "RAG-Data" the normalized payload of that mode (the values of
\* a mapping in insertion order, a list as it is, the empty list for anything
\* else); in mode NONE or DYNAMIC the result has no "RAG-Data" key; and no
\* write to the record store or the vector store, and no entry of either
\* store, contains the RAG payload.
C19_RagDataInResultOnly ==
    /\ (result.op = "send_prompt" /\ result.status = "ok") =>
          /\ IF settings.use_rag_data \in {"VOLATILE", "PERSISTENT"}
             THEN /\ "RAG-Data" \in DOMAIN result.value
                  /\ result.value["RAG-Data"] = PayloadEntries
             ELSE "RAG-Data" \notin DOMAIN result.value
          /\ calls.rec # <<>> /\ calls.vec # <<>>
    /\ \A i \in 1..Len(calls.rec) :
          /\ "RAG-Data" \notin DOMAIN calls.rec[i].message \cup DOMAIN calls.rec[i].message.metadata
                                  \cup DOMAIN calls.rec[i].conversation
          /\ DOMAIN calls.rec[i].message =
                {"message_id", "user_prompt", "llm_response", "user_comment", "metadata"}
    /\ \A i \in 1..Len(calls.vec) : "RAG-Data" \notin DOMAIN calls.vec[i].data
    /\ \A id \in DOMAIN record_store :
          "RAG-Data" \notin DOMAIN record_store[id] \cup DOMAIN record_store[id].metadata
    /\ \A id \in DOMAIN vector_store : "RAG-Data" \notin DOMAIN vector_store[id].data

C19_MappingValuesReturned ==
    /\ result.op = "send_prompt"
    /\ result.status = "ok"
    /\ settings.use_rag_data = "VOLATILE"
    /\ settings.on_the_fly_data = DictPayload(<<"doc1">>, <<"text1">>)
    /\ settings.default_rag_data = ScalarPayload("x")
    /\ result.value["RAG-Data"] = <<"text1">>
    /\ result.value["message_id"] \in DOMAIN record_store
    /\ result.value["message_id"] \in DOMAIN vector_store


\* does dictionary d hold every entry of info?
Contains(d, info) == \A k \in DOMAIN info : k \in DOMAIN d /\ d[k] = info[k]

\* role is recorded as bound to its handler, with the handler's info, in the
\* settings object s
CapturedIn(s, role) ==
    /\ role \in DOMAIN s.default_handlers
    /\ s.default_handlers[role] = HandlerName(role)
    /\ HandlerName(role) \in DOMAIN s.handlers
    /\ Contains(s.handlers[HandlerName(role)], HandlerInfo(role))

\* C20 (SpecBind): when the constructor is given handlers, the construction
\* succeeds and, for every role whose handler reports connected,
\* default_handlers[role] is the handler's name and handlers[name] contains
\* the handler's connection info, in the in-memory settings and in
\* config.json, whether or not handlers had an entry for that name before.
C20_CaptureOnHandoff ==
    [][result'.op = "construct" =>
         \A c \in [Roles -> BOOLEAN] :
            Construct(c) =>
               /\ result'.status = "ok"
               /\ im' = "direct"
               /\ \A role \in Roles :
                     c[role] => /\ CapturedIn(settings', role)
                                /\ CapturedIn(InitializeSettingsObject(config'), role)]_vars


\* C21 (SpecInit): whenever the persistent role and the vector role are bound
\* to handlers of the same name, whether the name came from an argument or
\* from the persisted defaults, both roles hold one and the same handler
\* object, and binding them made at most one connect call for that name.
C21_SameKeyOneInstance ==
    (im # "None" /\ handles["persistent"].name = handles["vector"].name)
        => /\ handles["persistent"].inst = handles["vector"].inst
           /\ (result.op = "construct" =>
                 Cardinality({i \in 1..Len(calls.conn) : calls.conn[i].name = handles["persistent"].name}) <= 1)


\* the default persisted for a role, "" when there is none
PersistedDefault(cfg, role) == DictGet(Section(ReadJson(cfg), "default_handlers"), role, "")

\* the identifier C22 expects initialize to use for a role
ExpectedKey(cfg, role, key) == IF key = SettingsKey THEN PersistedDefault(cfg, role) ELSE key

\* C22 (SpecInit): initialize binds each role to the identifier passed for
\* it, or, for the sentinel, to the default persisted for the role; it fails
\* exactly when the sentinel is passed for a role without persisted default.
C22_RegistryResolution ==
    [][result'.op = "initialize" =>
         \A llm \in LLMKeys, persistent \in PersistentKeys, vector \in VectorKeys :
           Initialize(llm, persistent, vector) =>
             LET want == ("llm" :> ExpectedKey(config, "llm", llm))
                         @@ ("persistent" :> ExpectedKey(config, "persistent", persistent))
                         @@ ("vector" :> ExpectedKey(config, "vector", vector))
             IN  /\ result'.status = "ok" <=> \A r \in Roles : want[r] # ""
                 /\ result'.status = "ok" => \A r \in Roles : handles'[r].name = want[r]]_vars


\* C23 (SpecInit): a successful initialize leaves every handler disconnected,
\* makes no connect call and leaves config.json as it was; after it,
\* start_conversation succeeds exactly when the three roles report connected,
\* and a role comes to report connected only through a successful connect
\* for a role bound to the same handler object, which connects every role
\* bound to that object.
C23_InitializeOnlyConstructs ==
    [][/\ result'.op = "initialize" =>
            /\ config' = config
            /\ calls'.conn = <<>>
            /\ result'.status = "ok" => \A r \in Roles : ~connected'[r] /\ handles'[r].inst # 0
       /\ (im = "api" /\ result'.op = "start_conversation" /\ result'.via = "api") =>
            (result'.status = "ok" <=> \A r \in Roles : connected[r])
       /\ (im = "api" /\ result'.op = "connect") =>
            LET target == calls'.conn[1].role
            IN  \A r \in Roles :
                  connected'[r] = (connected[r] \/ (result'.status = "ok" /\ handles[r].inst = handles[target].inst))
      ]_vars

\* C23 witness: after initialize with one identifier for both data roles, a
\* conversation was started
C23_StartedOnSharedHandler ==
    /\ im = "api"
    /\ handles["persistent"].inst = handles["vector"].inst
    /\ result.op = "start_conversation"
    /\ result.status = "ok"

\* C23 as stated: after initialize a role comes to report connected only
\* through a successful connect for that very role, so that
\* start_conversation fails until connect has succeeded for each of the three
C23_EachRoleItsOwnConnect ==
    [][(im = "api" /\ result'.op = "connect") =>
         \A r \in Roles : (connected'[r] /\ ~connected[r]) => calls'.conn[1].role = r]_vars


\* the fields of Settings
SettingsFields == DOMAIN DefaultSettings

\* C24 (SpecSettings): write_setting(key, value) with a Settings field stores
\* value in the field and read_setting(key) returns what the field holds, so
\* that a write followed by a read returns the value; with any other key both
\* raise KeyError and change neither the settings nor config.json.
C24_SettingsRoundTrip ==
    [][\A key \in SettingKeys :
         /\ ImReadSetting(key) =>
              IF key \in SettingsFields
              THEN result'.status = "ok" /\ result'.value = settings[key]
              ELSE result'.status = "KeyError"
         /\ \A value \in SettingValues(key) :
              ImWriteSetting(key, value, "none") =>
                IF key \in SettingsFields
                THEN settings'[key] = value
                ELSE result'.status = "KeyError" /\ settings' = settings /\ config' = config]_vars


\* the value persisted for a general setting, None when there is none
PersistedSetting(cfg, key) == DictGet(Section(ReadJson(cfg), "general"), key, None)

\* C25 (SpecSettings): after write_setting(key, value) has returned or raised,
\* either the field of the settings and general[key] in config.json both hold
\* value, or the settings and config.json are both as before the call.
C25_WriteAllOrNothing ==
    [][\A key \in SettingKeys, fault \in {"none", "OSError"} : \A value \in SettingValues(key) :
         ImWriteSetting(key, value, fault) =>
           \/ /\ key \in SettingsFields
              /\ settings'[key] = value
              /\ key \in DOMAIN Section(ReadJson(config'), "general")
              /\ PersistedSetting(config', key) = value
           \/ settings' = settings /\ config' = config]_vars


\* C26 (SpecSettings): with config.json missing or unreadable no access
\* fails on the file: read_setting returns the empty section, or None for a
\* key, get_connection finds no handler, set_connection and write_setting
\* store their argument in a new file, initialize_settings_object returns
\* the default Settings.
C26_MissingFileIsEmpty ==
    [][ReadJson(config) = EmptyDict =>
         /\ result'.status # "FileNotFoundError"
         /\ result'.op = "SettingsHandler.read_setting" =>
              /\ result'.status = "ok"
              /\ result'.value = IF calls'.arg[2] = None THEN EmptyDict ELSE None
         /\ result'.op = "SettingsHandler.get_connection" => result'.status = "ValueError"
         /\ result'.op = "SettingsHandler.write_setting" =>
              \A section \in Sections : \A value \in SectionValues(section) :
                CallWriteSetting(section, value) => config' = <<section :> value>>
         /\ result'.op = "SettingsHandler.set_connection" =>
              \A handler_name \in ConnectionNames, info \in ConnectionInfos :
                CallSetConnection(handler_name, info) => config' = <<"handlers" :> (handler_name :> info)>>
         /\ result'.op = "SettingsHandler.initialize_settings_object" => result'.value = DefaultSettings]_vars


\* the keys stored in a section of config.json
KeysOf(cfg, section) == DOMAIN Section(ReadJson(cfg), section)

\* C27 (SpecSettings): SettingsHandler.write_setting(section, value) stores
\* the keys of value in the section and leaves every other key of the
\* section and every other section as they were; set_connection(name, info)
\* stores the keys of info in the handler's entry and leaves the entry's
\* other keys, the other handlers and the other sections as they were.
C27_MergeGranularity ==
    [][/\ result'.op = "SettingsHandler.write_setting" =>
            \A section \in Sections : \A value \in SectionValues(section) :
              CallWriteSetting(section, value) =>
                /\ DOMAIN ReadJson(config') = DOMAIN ReadJson(config) \cup {section}
                /\ \A k \in DOMAIN value : ReadJson(config')[section][k] = value[k]
                /\ \A s2 \in DOMAIN ReadJson(config') :
                     /\ KeysOf(config', s2) = KeysOf(config, s2) \cup (IF s2 = section THEN DOMAIN value ELSE {})
                     /\ \A k2 \in KeysOf(config, s2) :
                          (s2 = section /\ k2 \in DOMAIN value)
                            \/ ReadJson(config')[s2][k2] = ReadJson(config)[s2][k2]
       /\ result'.op = "SettingsHandler.set_connection" =>
            \A handler_name \in ConnectionNames, info \in ConnectionInfos :
              CallSetConnection(handler_name, info) =>
                LET before == Section(ReadJson(config), "handlers")
                    after == Section(ReadJson(config'), "handlers")
                    old == DictGet(before, handler_name, EmptyDict)
                IN  /\ DOMAIN after = DOMAIN before \cup {handler_name}
                    /\ DOMAIN after[handler_name] = DOMAIN old \cup DOMAIN info
                    /\ \A k \in DOMAIN info : after[handler_name][k] = info[k]
                    /\ \A k \in DOMAIN old \ DOMAIN info : after[handler_name][k] = old[k]
                    /\ \A other \in DOMAIN before \ {handler_name} : after[other] = before[other]
                    /\ \A s2 \in (DOMAIN ReadJson(config) \cup DOMAIN ReadJson(config')) \ {"handlers"} :
                         /\ s2 \in DOMAIN ReadJson(config) /\ s2 \in DOMAIN ReadJson(config')
                         /\ ReadJson(config')[s2] = ReadJson(config)[s2]]_vars

\* C27 witness: a general setting was written next to the settings stored
\* before, and a handler's entry holds a key set by set_connection next to
\* the keys it had
C27_MergedIntoStoredKeys ==
    /\ result.op = "SettingsHandler.set_connection"
    /\ config # <<>>
    /\ {"default_system_prompt", "default_export_path"} \subseteq KeysOf(config, "general")
    /\ "mongodb" \in KeysOf(config, "handlers")
    /\ ReadJson(config)["handlers"]["mongodb"] = [host |-> "localhost", port |-> "27017", user |-> "lims"]


\* C28 (SpecRag): in DYNAMIC mode a failure of the get_info probe that follows
\* the search is swallowed: the language model is still called, the turn is
\* appended and committed, and send_prompt returns.
C28_ProbeBestEffort ==
    [][(result'.op = "send_prompt" /\ conversation # <<>> /\ settings.use_rag_data = "DYNAMIC") =>
         \A hits \in SearchHits :
           SendPrompt("im", "Query", hits, PlainReply, "get_info") =>
             /\ result'.status = "ok"
             /\ Len(calls'.llm) = 1
             /\ Len(conversation'[1].conversation_history) = Len(conversation[1].conversation_history) + 1
             /\ Len(calls'.rec) = 1]_vars


\* C29 (Spec): a send_prompt made while one of the three handlers reports not
\* connected raises the precondition error and does not call the language
\* model, also when the handler was connected when the conversation started.
C29_SendNeedsAllConnected ==
    [][(result'.op = "send_prompt" /\ conversation # <<>> /\ \E r \in Roles : ~connected[r]) =>
         /\ result'.status = "RuntimeError"
         /\ calls'.llm = <<>>]_vars


\* C30 (SpecInit): connect(target, data) makes one connect call, on the
\* handler of the target role, with host and port taken out of a copy of data
\* for the two data roles, and the caller's data holds afterwards every key
\* and value it held before, host and port included.
C30_ConnectOneHandlerDataKept ==
    [][result'.op = "connect" =>
         \A target \in Roles, data \in ConnectData :
           Connect(target, data) =>
             /\ calls'.tr = <<target \o ".connect">>
             /\ Len(calls'.conn) = 1
             /\ calls'.conn[1].role = target
             /\ calls'.conn[1].name = handles[target].name
             /\ result'.value = data
             /\ {"host", "port"} \subseteq DOMAIN result'.value
             /\ IF target = "llm"
                THEN calls'.conn[1].auth = data
                ELSE /\ calls'.conn[1].host = data["host"]
                     /\ calls'.conn[1].port = data["port"]
                     /\ calls'.conn[1].auth = [k \in DOMAIN data \ {"host", "port"} |-> data[k]]]_vars

\* C30 witness: the vector handler was connected with the host and port of
\* the caller's mapping, which still holds them
C30_VectorConnectedFromData ==
    /\ result.op = "connect"
    /\ result.status = "ok"
    /\ calls.conn[1].role = "vector"
    /\ calls.conn[1].host = "localhost"
    /\ "host" \in DOMAIN result.value
    /\ "host" \notin DOMAIN calls.conn[1].auth


\* C31 (SpecInit): a conversation started with start_conversation(
\* conversation_metadata), through the module API as well as on the
\* InteractionManager, has the supplied mapping as its metadata.
C31_ApiStartKeepsMetadata ==
    [][(result'.op = "start_conversation" /\ result'.status = "ok") =>
         \A via \in {"api", "im"}, md \in ConvMetaArgs :
           StartConversation(via, md) => conversation'[1].conversation_metadata = md]_vars


\* C32 (SpecRag): set_rag_data(data, True) stores data as on_the_fly_data,
\* selects VOLATILE and leaves default_rag_data and config.json alone;
\* set_rag_data(data, False) stores data as default_rag_data, selects
\* PERSISTENT and persists data as general.default_rag_data; delete_rag_data
\* selects NONE and empties both payloads and the persisted default_rag_data.
C32_RagDataOperations ==
    [][/\ result'.op = "set_rag_data" =>
            \A data \in RagArgs, volatile \in BOOLEAN :
              SetRagData(data, volatile) =>
                IF volatile
                THEN /\ settings'.on_the_fly_data = data
                     /\ settings'.use_rag_data = "VOLATILE"
                     /\ settings'.default_rag_data = settings.default_rag_data
                     /\ config' = config
                ELSE /\ settings'.default_rag_data = data
                     /\ settings'.use_rag_data = "PERSISTENT"
                     /\ PersistedSetting(config', "default_rag_data") = data
       /\ result'.op = "delete_rag_data" =>
            /\ settings'.use_rag_data = "NONE"
            /\ settings'.on_the_fly_data = EmptyPayload
            /\ settings'.default_rag_data = EmptyPayload
            /\ PersistedSetting(config', "default_rag_data") = EmptyPayload]_vars

\* C32 witness: volatile data was set while other data is persisted as the
\* default
C32_VolatileBesidePersisted ==
    /\ result.op = "set_rag_data"
    /\ settings.use_rag_data = "VOLATILE"
    /\ Truthy(settings.on_the_fly_data)
    /\ Truthy(settings.default_rag_data)
    /\ settings.on_the_fly_data # settings.default_rag_data
    /\ PersistedSetting(config, "default_rag_data") = settings.default_rag_data


\* the messages the persistent handler holds for a conversation
MessagesOf(store, name, conv_id) ==
    IF name = "mongodb"
    THEN IF conv_id \in DOMAIN store
         THEN LET stored == DictGet(store[conv_id], "messages", <<>>) IN {stored[i] : i \in 1..Len(stored)}
         ELSE {}
    ELSE {PostgresStore(store).messages[id] : id \in {i \in DOMAIN PostgresStore(store).messages :
                                                      PostgresStore(store).messages[i].conversation_id = conv_id}}

\* C33 (SpecStore): save_record upserts by conversation id and message id: a
\* stored conversation never holds two messages with one message_id; saving
\* a message_id the conversation already holds leaves its number of messages
\* unchanged; saving a message_id the conversation does not hold adds exactly
\* one message to it, and the saved message is afterwards found in the
\* conversation it was saved with.
C33_SaveRecordUpsert ==
    [][(result'.op = "save_record" /\ result'.status = "ok") =>
         LET name == handles["persistent"].name
             conv_ids == {c["conversation_id"] : c \in StoreConversations}
             conv_id == calls'.rec[1].conversation["conversation_id"]
             msg == calls'.rec[1].message
             before == MessagesOf(db.record, name, conv_id)
             after == MessagesOf(db'.record, name, conv_id)
             held == {m \in before : m["message_id"] = msg["message_id"]}
         IN  /\ \A c \in conv_ids : \A m1, m2 \in MessagesOf(db'.record, name, c) :
                  m1["message_id"] = m2["message_id"] => m1 = m2
             /\ Cardinality(after) = Cardinality(before) + (IF held # {} THEN 0 ELSE 1)
             /\ \E m \in after : m["message_id"] = msg["message_id"]]_vars

\* save_record within one conversation, and for message_ids held nowhere
\* (SpecStore): a stored conversation never holds two messages with one message_id; saving
\* a message_id the conversation already holds leaves its number of messages
\* unchanged and updates that message (mongodb: the keys not supplied keep
\* their values); saving a message_id held nowhere adds exactly one message
\* to the conversation; every message stored before the call is afterwards
\* still in the conversation it was in.
C33_UpsertWithinConversation ==
    [][(result'.op = "save_record" /\ result'.status = "ok") =>
         LET name == handles["persistent"].name
             conv_ids == {c["conversation_id"] : c \in StoreConversations}
             conv_id == calls'.rec[1].conversation["conversation_id"]
             msg == calls'.rec[1].message
             before == MessagesOf(db.record, name, conv_id)
             after == MessagesOf(db'.record, name, conv_id)
             held == {m \in before : m["message_id"] = msg["message_id"]}
             held_anywhere == \E c \in conv_ids : \E m \in MessagesOf(db.record, name, c) :
                                m["message_id"] = msg["message_id"]
         IN  /\ \A c \in conv_ids : \A m1, m2 \in MessagesOf(db'.record, name, c) :
                  m1["message_id"] = m2["message_id"] => m1 = m2
             /\ held # {} =>
                  /\ Cardinality(after) = Cardinality(before)
                  /\ \E m \in after :
                       /\ m["message_id"] = msg["message_id"]
                       /\ \A k \in DOMAIN msg \ {"metadata"} : m[k] = msg[k]
                       /\ name = "mongodb" =>
                            \A old \in held : \A k \in DOMAIN old \ DOMAIN msg : m[k] = old[k]
             /\ ~held_anywhere =>
                  /\ Cardinality(after) = Cardinality(before) + 1
                  /\ \E m \in after : m["message_id"] = msg["message_id"]
             /\ \A c \in conv_ids : \A old \in MessagesOf(db.record, name, c) :
                  \E m \in MessagesOf(db'.record, name, c) : m["message_id"] = old["message_id"]]_vars

\* the merge of the mongodb handler is exercised: it holds the first turn once, with the
\* comment of a later partial update next to the prompt of the first save
C33_PartialUpdateMerged ==
    /\ result.op = "save_record"
    /\ handles["persistent"].name = "mongodb"
    /\ \E c \in DOMAIN db.record :
         /\ Len(db.record[c]["messages"]) = 1
         /\ DictGet(db.record[c]["messages"][1], "message_id", "") = MsgId(1)
         /\ DictGet(db.record[c]["messages"][1], "user_comment", "") = "late"
         /\ DictGet(db.record[c]["messages"][1], "user_prompt", "") = "Hello"

\* the number of entries of a vector table keyed by id, and of all entries
EntriesKeyed(store, name, id) ==
    IF name = "chromadb" THEN Cardinality({i \in 1..Len(store) : store[i].id = id})
    ELSE IF id \in DOMAIN store THEN 1 ELSE 0

EntryCount(store, name) ==
    IF name = "chromadb" THEN Len(store) ELSE Cardinality(DOMAIN store)

\* C34 (SpecStore): every commit of a turn leaves in lims_embeddings exactly
\* one entry keyed by that turn's message_id, for either vector handler, and
\* the table holds no entry under any other key: one entry per committed turn
\* however often it is committed.
C34_OneVectorEntryPerTurn ==
    [][(result'.op = "save_vector" /\ result'.status = "ok") =>
         LET name == handles["vector"].name
             store == DictGet(db'.vector, EmbeddingsTable, EmptyDict)
             turn == calls'.vec[1].turn
             turn_ids == {last_msg["message_id"] : last_msg \in StoreTurns}
         IN  /\ EntriesKeyed(store, name, turn) = 1
             /\ EntryCount(store, name) = Cardinality({t \in turn_ids : EntriesKeyed(store, name, t) >= 1})]_vars

\* the same for the postgres vector handler on the database that holds the
\* messages, where it holds
C34_PostgresOneEntryPerMessage ==
    [][(result'.op = "save_vector" /\ result'.status = "ok" /\ handles["vector"].name = "postgres") =>
         LET store == DictGet(db'.vector, EmbeddingsTable, EmptyDict)
             turn == calls'.vec[1].turn
         IN  /\ EntriesKeyed(store, "postgres", turn) = 1
             /\ DOMAIN store \subseteq DOMAIN PostgresStore(db'.record).messages]_vars

\* a turn committed twice to the chromadb handler: two entries, neither keyed
\* by the message_id
C34_ChromadbTwoEntries ==
    /\ handles["vector"].name = "chromadb"
    /\ EmbeddingsTable \in DOMAIN db.vector
    /\ \E i, j \in 1..Len(db.vector[EmbeddingsTable]) :
         /\ i < j
         /\ db.vector[EmbeddingsTable][i].metadata["message_id"] = db.vector[EmbeddingsTable][j].metadata["message_id"]
         /\ db.vector[EmbeddingsTable][i].id # db.vector[EmbeddingsTable][i].metadata["message_id"]

\* C35 (Spec): once send_prompt has returned or raised, every turn of the
\* in-memory history has been written to the record store by a successful
\* save_record; a turn whose write failed is not in the history.
C35_HistoryIsRecorded ==
    (pc = "idle" /\ conversation # <<>>) =>
        \A i \in 1..Len(conversation[1].conversation_history) :
            conversation[1].conversation_history[i]["message_id"] \in DOMAIN record_store

\* C36 (Spec): metadata cannot override the identifiers of a commit: every
\* save_record of a conversation carries its conversation_id and created_at,
\* every save_vector carries the message_id, prompt and response of the
\* committed turn, whatever the metadata of conversation and turn hold.
C36_CommitIdentifiersKept ==
    conversation # <<>> =>
        LET c == conversation[1]
            last_msg == c.conversation_history[Len(c.conversation_history)]
        IN  /\ \A i \in 1..Len(calls.rec) :
                 /\ calls.rec[i].conversation["conversation_id"] = c.conversation_id
                 /\ calls.rec[i].conversation["created_at"] = c.created_at
            /\ \A i \in 1..Len(calls.vec) :
                 /\ calls.vec[i].data["message_id"] = last_msg["message_id"]
                 /\ calls.vec[i].data["prompt"] = last_msg["prompt"]
                 /\ calls.vec[i].data["response"] = last_msg["content"]

\* C37 (SpecInit): building an InteractionManager from the persisted
\* configuration leaves settings.handlers as loaded: the connection info of
\* every default handler keeps host and port, and both data roles are
\* connected with the stored host and port, also when they name one handler.
C37_ConstructKeepsHandlers ==
    [][(result'.op = "construct" /\ result'.status = "ok" /\ Len(calls'.conn) = 3) =>
         LET loaded == InitializeSettingsObject(config)
         IN  /\ settings'.handlers = loaded.handlers
             /\ \A i \in 1..3 :
                  calls'.conn[i].role # "llm" =>
                    /\ calls'.conn[i].host = loaded.handlers[calls'.conn[i].name]["host"]
                    /\ calls'.conn[i].port = loaded.handlers[calls'.conn[i].name]["port"]]_vars

\* C38 (SpecRag): after any sequence of set_rag_data, set_rag_mode and
\* delete_rag_data, RAG mode VOLATILE implies non-empty on_the_fly_data and
\* RAG mode PERSISTENT implies non-empty default_rag_data.
C38_ModeHasPayload ==
    /\ settings.use_rag_data = "VOLATILE" => Truthy(settings.on_the_fly_data)
    /\ settings.use_rag_data = "PERSISTENT" => Truthy(settings.default_rag_data)

\* the part of it that set_rag_mode enforces: a switch to VOLATILE or
\* PERSISTENT with an empty payload is rejected and the mode stays
C38_SetRagModeRejectsEmpty ==
    [][result'.op = "set_rag_mode" =>
         /\ (result'.status = "ok" /\ settings'.use_rag_data = "VOLATILE") => Truthy(settings.on_the_fly_data)
         /\ (result'.status = "ok" /\ settings'.use_rag_data = "PERSISTENT") => Truthy(settings.default_rag_data)
         /\ result'.status # "ok" => (result'.status = "ValueError" /\ settings' = settings)]_vars

\* C39 (SpecOps): whenever remove_metadata or add_metadata raises, the
\* conversation (its metadata and history) and both stores are as they were
\* before the call.
C39_FailedMetadataCallChangesNothing ==
    [][(result'.op \in {"remove_metadata", "add_metadata"} /\ result'.status # "ok") =>
         /\ conversation' = conversation
         /\ record_store' = record_store
         /\ vector_store' = vector_store]_vars

\* C40 (SpecMeta): change_comment changes nothing but the comment of the
\* most recent turn in memory and writes to neither store; in any step, the
\* record store's copy of a turn's comment changes only when that turn is
\* committed as the most recent turn of the conversation, so never once a
\* later send_prompt has appended a newer turn.
C40_CommentReachesStoreOnlyByCommit ==
    [][/\ result'.op = "change_comment" =>
            /\ record_store' = record_store
            /\ vector_store' = vector_store
            /\ calls'.rec = <<>> /\ calls'.vec = <<>>
            /\ result'.status # "ok" => conversation' = conversation
            /\ result'.status = "ok" =>
                 LET h == conversation[1].conversation_history
                     h2 == conversation'[1].conversation_history
                 IN  /\ [conversation'[1] EXCEPT !.conversation_history = h] = conversation[1]
                     /\ Len(h2) = Len(h)
                     /\ \A i \in 1..Len(h) - 1 : h2[i] = h[i]
                     /\ \E comment \in Comments : h2[Len(h)] = DictUpdate(h[Len(h)], "comment" :> comment)
       /\ \A id \in DOMAIN record_store :
            record_store'[id]["user_comment"] # record_store[id]["user_comment"] =>
              /\ conversation' # <<>>
              /\ conversation'[1].conversation_history # <<>>
              /\ LET h2 == conversation'[1].conversation_history
                 IN  /\ h2[Len(h2)]["message_id"] = id
                     /\ record_store'[id]["user_comment"] = DictGet(h2[Len(h2)], "comment", "")
              /\ \E i \in 1..Len(calls'.rec) : calls'.rec[i].turn = id /\ calls'.rec[i].ok]_vars

\* C40 witness: after change_comment on the second turn, the first turn
\* carries in memory a comment that the record store never received
C40_OlderCommentNotInStore ==
    /\ result.op = "change_comment"
    /\ result.status = "ok"
    /\ conversation # <<>>
    /\ Len(conversation[1].conversation_history) >= 2
    /\ LET first == conversation[1].conversation_history[1]
       IN  /\ first["comment"] = "ok"
           /\ first["message_id"] \in DOMAIN record_store
           /\ record_store[first["message_id"]]["user_comment"] = ""

====
